---------------------------- MODULE Spec2Model ----------------------------
(***************************************************************************)
(* A model of the OLX scraping engine: the typed execution framework       *)
(* (BaseTool.execute), the input schemas, the session-scoped page runner   *)
(* (withPage), the retry coordinator (retryOperation) and the base scraper *)
(* (scrape / getListingDetails with its listing-id -> URL cache).          *)
(*                                                                         *)
(* The specifications sharing the module:                                  *)
(*   SpecTool   one BaseTool.execute call over the two declared schemas    *)
(*              with an arbitrary executeImpl (returns, throws an Error,   *)
(*              a ZodError, a string, a plain object);                     *)
(*   SpecRetry  one retryOperation call around an operation that may fail  *)
(*              or succeed on each attempt;                                *)
(*   Spec       searchListings and getListingDetails calls made one after  *)
(*              the other against one factory, one browser and the         *)
(*              per-domain scrapers with their URL caches;                 *)
(*   SpecFactory  getScraper / createScraper / clearCache calls on one      *)
(*              OlxScraperFactory;                                         *)
(*   SpecUrl    buildSearchUrl over the filters of a search;               *)
(*   SpecConc   scrape() and getListingDetails() calls in flight at the    *)
(*              same time on one browser, interleaved at every await;      *)
(*   SpecExtract  extractListings and extractListingId over cards that     *)
(*              may link anywhere, with the clock advancing;               *)
(*   SpecDomains  getDomainConfig, getSupportedDomains, isDomainSupported  *)
(*              asked about arbitrary strings;                             *)
(*   SpecRegistry  one ToolRegistry under register, unregister and clear;  *)
(*   SpecServer  one OLXMCPServer under initialize, cleanup and the        *)
(*              CallTool handler;                                          *)
(*   SpecPagination  extractPaginationInfo on one page;                    *)
(*   SpecFind  one findListingUrl call;                                    *)
(*   SpecWrap  wrapError applied to an error once and again.               *)
(***************************************************************************)
EXTENDS Integers, Sequences, FiniteSets, TLC

VARIABLES
    \* ---- SpecTool: one BaseTool.execute call ----
    tSchema,      \* which tool's inputSchema: "search" | "details"
    tArgs,        \* raw arguments, field name -> JS value
    tSignal,      \* "none" (no AbortSignal) | "clear" | "aborted"
    tAtEntry,     \* the signal as execute() saw it on entry
    tPc,          \* "new" | "impl" (awaiting executeImpl) | "done"
    tParsed,      \* number of inputSchema.parse evaluations
    tImplCalls,   \* number of executeImpl invocations
    tImplArgs,    \* the arguments executeImpl was invoked with
    tOutcome,     \* how executeImpl settled
    tResult       \* the Result returned by execute

toolVars == <<tSchema, tArgs, tSignal, tAtEntry, tPc, tParsed, tImplCalls,
              tImplArgs, tOutcome, tResult>>

VARIABLES
    \* ---- SpecRetry: one retryOperation call ----
    rMax,         \* maxRetries
    rAttempt,     \* the loop variable attempt
    rPc,          \* "new" | "operation" | "backoff" | "done"
    rLog,         \* what happened, in order: attempts and delays
    rLastError,   \* the local lastError
    rOutcome      \* how retryOperation settled

retryVars == <<rMax, rAttempt, rPc, rLog, rLastError, rOutcome>>

VARIABLES
    \* ---- Spec: tool calls against one factory and one browser ----
    op,           \* per call slot: where the call is and its locals
    signal,       \* per call slot: the AbortSignal, "none" | "clear" | "aborted"
    pages,        \* per call slot: the pages browser.newPage() gave the call
    hist,         \* per call slot: what the call has done so far (history)
    scrapers,     \* OlxScraperFactory.scrapers: domains with a cached scraper
    urlCache,     \* per domain: BaseOlxScraper.urlCache, listing id -> URL
    surfaced,     \* per domain: ids returned by a successful scrape() (history)
    callsMade     \* number of tool calls started

mainVars == <<op, signal, pages, hist, scrapers, urlCache, surfaced, callsMade>>

VARIABLES
    \* ---- SpecFactory: calls on one OlxScraperFactory ----
    fScrapers,    \* OlxScraperFactory.scrapers, a Map: set of [key, value]
    fCreated,     \* number of scraper objects constructed so far
    fLog          \* the calls made, in order, with what each returned (history)

factoryVars == <<fScrapers, fCreated, fLog>>

VARIABLES
    \* ---- SpecUrl: one buildSearchUrl call ----
    uDomain,      \* the scraper's domain
    uFilters,     \* the SearchFilters, field name -> JS value
    uPc,          \* "new" | "done"
    uUrl          \* the URL returned

urlVars == <<uDomain, uFilters, uPc, uUrl>>

VARIABLES
    cOp,          \* SpecConc: per call, where it stands and what it holds
    cBrowser,     \* the open pages of the browser, by handle
    cCache,       \* per domain, the scraper's urlCache
    cLast         \* per domain and id, who wrote the id last, and what

concVars == <<cOp, cBrowser, cCache, cLast>>

VARIABLES
    xDomain,      \* SpecExtract: the domain of the scraper
    xClock,       \* the milliseconds Date.now() has advanced by
    xPc,          \* "off", "loop" (inside extractListings) or "returned"
    xListings,    \* the listings array of the running extractListings
    xCache,       \* the scraper's urlCache
    xCalls,       \* the extractListingId calls made: url and returned id
    xLast         \* the card the loop body ran on last, if it was the last step

extractVars == <<xDomain, xClock, xPc, xListings, xCache, xCalls, xLast>>

VARIABLES
    dLog          \* SpecDomains: the registry calls made, with what they gave

domVars == <<dLog>>

VARIABLES
    gTools,       \* SpecRegistry: the tools Map of a ToolRegistry, in insertion order
    gLast         \* the last call made on it, with what it gave

regVars == <<gTools, gLast>>

VARIABLES
    sRegistry,    \* SpecServer: the tools of the server's ToolRegistry
    sBrowser,     \* this.browser: 0 for undefined, else the handle of a launch
    sFactory,     \* this.scraperFactory: 0, or the handle of its browser
    sLaunched,    \* how often chromium.launch resolved
    sOpen,        \* the launched browsers not closed
    sLast         \* the last call on the server, with what it gave

serverVars == <<sRegistry, sBrowser, sFactory, sLaunched, sOpen, sLast>>

VARIABLES
    pgDomain,     \* SpecPagination: the scraper's domain
    pgElement,    \* the total-count element of the page
    pgPage,       \* filters.page
    pgPc,         \* where extractPaginationInfo is
    pgTotal,      \* totalCount once the $eval settled
    pgResult      \* what performSearch's fn gave

pagVars == <<pgDomain, pgElement, pgPage, pgPc, pgTotal, pgResult>>

VARIABLES
    lDomain,      \* SpecFind: the scraper's domain
    lId,          \* the listingId findListingUrl is called with
    lLinks,       \* the hrefs of the card links of the search page, in order
    lPc,          \* where findListingUrl is
    lNav,         \* the URL it navigated to
    lOut          \* what it settled with

findVars == <<lDomain, lId, lLinks, lPc, lNav, lOut>>

VARIABLES
    wError,       \* SpecWrap: the error at hand
    wInput,       \* the error the last wrapError was given
    wCount        \* how often the error was wrapped

wrapVars == <<wError, wInput, wCount>>

vars == <<toolVars, retryVars, mainVars, factoryVars, urlVars, concVars, extractVars, domVars, regVars, serverVars, pagVars, findVars, wrapVars>>

\* What an action of one specification leaves alone.
notTool == <<retryVars, mainVars, factoryVars, urlVars, concVars, extractVars, domVars, regVars, serverVars, pagVars, findVars, wrapVars>>
notRetry == <<toolVars, mainVars, factoryVars, urlVars, concVars, extractVars, domVars, regVars, serverVars, pagVars, findVars, wrapVars>>
notMain == <<toolVars, retryVars, factoryVars, urlVars, concVars, extractVars, domVars, regVars, serverVars, pagVars, findVars, wrapVars>>
notFactory == <<toolVars, retryVars, mainVars, urlVars, concVars, extractVars, domVars, regVars, serverVars, pagVars, findVars, wrapVars>>
notUrl == <<toolVars, retryVars, mainVars, factoryVars, concVars, extractVars, domVars, regVars, serverVars, pagVars, findVars, wrapVars>>
notConc == <<toolVars, retryVars, mainVars, factoryVars, urlVars, extractVars, domVars, regVars, serverVars, pagVars, findVars, wrapVars>>
notExtract == <<toolVars, retryVars, mainVars, factoryVars, urlVars, concVars, domVars, regVars, serverVars, pagVars, findVars, wrapVars>>
notDom == <<toolVars, retryVars, mainVars, factoryVars, urlVars, concVars, extractVars, regVars, serverVars, pagVars, findVars, wrapVars>>
notReg == <<toolVars, retryVars, mainVars, factoryVars, urlVars, concVars, extractVars, domVars, serverVars, pagVars, findVars, wrapVars>>
notServer == <<toolVars, retryVars, mainVars, factoryVars, urlVars, concVars, extractVars, domVars, regVars, pagVars, findVars, wrapVars>>
notPag == <<toolVars, retryVars, mainVars, factoryVars, urlVars, concVars, extractVars, domVars, regVars, serverVars, findVars, wrapVars>>
notFind == <<toolVars, retryVars, mainVars, factoryVars, urlVars, concVars, extractVars, domVars, regVars, serverVars, pagVars, wrapVars>>
notWrap == <<toolVars, retryVars, mainVars, factoryVars, urlVars, concVars, extractVars, domVars, regVars, serverVars, pagVars, findVars>>

-----------------------------------------------------------------------------
(* JS values: a type tag, the string (for strings) and a number: the       *)
(* string's length, the number's value, or 0/1 for a boolean.              *)

Str(s) == [t |-> "string", s |-> s, n |-> Len(s)]
Num(n) == [t |-> "number", s |-> "", n |-> n]
Bool(b) == [t |-> "boolean", s |-> "", n |-> IF b THEN 1 ELSE 0]
Undef == [t |-> "undefined", s |-> "", n |-> 0]

\* A 101-character string, one over the query's max(100).
LongStr == [t |-> "string", s |-> "long-query-of-101-chars", n |-> 101]

\* JS truthiness: undefined, "", 0 and false are falsy.
Truthy(v) == v.t # "undefined" /\ v.n # 0

\* A local or a history entry that has no value yet.
Unset == [unset |-> TRUE]
NotEntered == "not-entered"

-----------------------------------------------------------------------------
(* Error values.  message is the message string cut into tokens at the     *)
(* places the code concatenates it, so that "starts with" and "contains"   *)
(* can be stated.  origin tells which code constructed the object: two     *)
(* Error objects are the same object only if they agree on every field.    *)

MkError(cls, message, origin) ==
    [kind |-> "Error", cls |-> cls, message |-> message, issues |-> <<>>,
     origin |-> origin]

MkZodError(issues, origin) ==
    [kind |-> "Error", cls |-> "ZodError", message |-> <<"zod issues">>,
     issues |-> issues, origin |-> origin]

ThrownString(s) ==
    [kind |-> "string", cls |-> "", message |-> <<s>>, issues |-> <<>>,
     origin |-> "impl"]

ThrownObject ==
    [kind |-> "object", cls |-> "", message |-> <<"Object error">>,
     issues |-> <<>>, origin |-> "impl"]

\* String(v) for the thrown non-Error values.
StringOf(v) == IF v.kind = "object" THEN <<"[object Object]">> ELSE v.message

createResult(data) == [success |-> TRUE, data |-> data]

\* createError(error): an Error is kept, a string becomes new Error(string).
createError(error) == [success |-> FALSE, error |-> error]

CancelledMessage == <<"Operation cancelled">>

-----------------------------------------------------------------------------
(* The declared input schemas (zod 3).  A field rule is parsed to a status *)
(* "valid" | "dirty" | "aborted": a wrong type or a value outside an enum  *)
(* aborts, a failed check (min, max) only dirties.  An object is aborted   *)
(* when one of its fields is; .refine() runs its check only on an object   *)
(* that is not aborted.                                                    *)

NoLimit == -1

EnumRule(values, dflt) ==
    [kind |-> "enum", values |-> values, min |-> NoLimit, max |-> NoLimit,
     optional |-> FALSE, dflt |-> dflt]
StringRule(min, max, optional) ==
    [kind |-> "string", values |-> {}, min |-> min, max |-> max,
     optional |-> optional, dflt |-> Undef]
NumberRule(min, max, optional, dflt) ==
    [kind |-> "number", values |-> {}, min |-> min, max |-> max,
     optional |-> optional, dflt |-> dflt]
BooleanRule(dflt) ==
    [kind |-> "boolean", values |-> {}, min |-> NoLimit, max |-> NoLimit,
     optional |-> FALSE, dflt |-> dflt]

OlxDomains == {"olx.pt", "olx.pl", "olx.bg", "olx.ro", "olx.ua"}
SortModes == {"relevance", "date", "price-asc", "price-desc"}

SearchListingsArgsSchema == <<
    [key |-> "domain",   rule |-> EnumRule(OlxDomains, Undef)],
    [key |-> "query",    rule |-> StringRule(1, 100, TRUE)],
    [key |-> "category", rule |-> StringRule(NoLimit, NoLimit, TRUE)],
    [key |-> "location", rule |-> StringRule(NoLimit, NoLimit, TRUE)],
    [key |-> "minPrice", rule |-> NumberRule(0, NoLimit, TRUE, Undef)],
    [key |-> "maxPrice", rule |-> NumberRule(0, NoLimit, TRUE, Undef)],
    [key |-> "page",     rule |-> NumberRule(1, NoLimit, FALSE, Num(1))],
    [key |-> "limit",    rule |-> NumberRule(1, 50, FALSE, Num(20))],
    [key |-> "sortBy",   rule |-> EnumRule(SortModes, Str("relevance"))] >>

GetListingDetailsArgsSchema == <<
    [key |-> "domain",            rule |-> EnumRule(OlxDomains, Undef)],
    [key |-> "listingId",         rule |-> StringRule(1, NoLimit, FALSE)],
    [key |-> "includeImages",     rule |-> BooleanRule(Bool(FALSE))],
    [key |-> "includeSellerInfo", rule |-> BooleanRule(Bool(TRUE))] >>

Shape(schema) ==
    IF schema = "search" THEN SearchListingsArgsSchema
    ELSE GetListingDetailsArgsSchema

Issue(path, message) == [path |-> path, message |-> message]

RequiredMsg == "Required"
InvalidTypeMsg(kind) == "Expected " \o kind \o ", received other type"
InvalidEnumMsg == "Invalid enum value"
TooSmallMsg(kind) ==
    IF kind = "string" THEN "String must contain at least the minimum character(s)"
    ELSE "Number must be greater than or equal to the minimum"
TooBigMsg(kind) ==
    IF kind = "string" THEN "String must contain at most the maximum character(s)"
    ELSE "Number must be less than or equal to the maximum"
MaxPriceMsg == "Max price must be greater than or equal to min price"
AtLeastOneMsg == "At least one of query, category, or location must be provided"

\* The JS type a rule expects.
RuleType(rule) == IF rule.kind = "enum" THEN "string" ELSE rule.kind

\* ZodOptional / ZodDefault / ZodString / ZodNumber / ZodBoolean / ZodEnum.
ParseField(key, rule, raw) ==
    LET v == IF raw.t = "undefined" /\ rule.dflt.t # "undefined"
             THEN rule.dflt ELSE raw
    IN  IF v.t = "undefined" /\ rule.optional
        THEN [status |-> "valid", issues |-> <<>>, value |-> v]
        ELSE IF v.t = "undefined"
        THEN [status |-> "aborted", issues |-> <<Issue(key, RequiredMsg)>>,
              value |-> v]
        ELSE IF v.t # RuleType(rule)
        THEN [status |-> "aborted",
              issues |-> <<Issue(key, InvalidTypeMsg(RuleType(rule)))>>,
              value |-> v]
        ELSE IF rule.kind = "enum"
        THEN IF v.s \in rule.values
             THEN [status |-> "valid", issues |-> <<>>, value |-> v]
             ELSE [status |-> "aborted",
                   issues |-> <<Issue(key, InvalidEnumMsg)>>, value |-> v]
        ELSE LET small == rule.min # NoLimit /\ v.n < rule.min
                 big == rule.max # NoLimit /\ v.n > rule.max
                 iss == (IF small THEN <<Issue(key, TooSmallMsg(rule.kind))>>
                         ELSE <<>>)
                        \o (IF big THEN <<Issue(key, TooBigMsg(rule.kind))>>
                            ELSE <<>>)
             IN  [status |-> IF iss = <<>> THEN "valid" ELSE "dirty",
                  issues |-> iss, value |-> v]

FieldResult(shape, args, i) == ParseField(shape[i].key, shape[i].rule, args[shape[i].key])

RECURSIVE FieldIssues(_, _, _)
FieldIssues(shape, args, i) ==
    IF i > Len(shape) THEN <<>>
    ELSE FieldResult(shape, args, i).issues \o FieldIssues(shape, args, i + 1)

\* ZodObject._parse: every field is parsed, in the order of the shape.
ParseObject(shape, args) ==
    LET idx == 1..Len(shape)
    IN  [status |->
            IF \E i \in idx : FieldResult(shape, args, i).status = "aborted"
            THEN "aborted"
            ELSE IF \E i \in idx : FieldResult(shape, args, i).status = "dirty"
            THEN "dirty" ELSE "valid",
         issues |-> FieldIssues(shape, args, 1),
         value |-> [k \in {shape[i].key : i \in idx} |->
                      LET i == CHOOSE j \in idx : shape[j].key = k
                      IN  FieldResult(shape, args, i).value]]

\* .refine(data => !data.maxPrice || !data.minPrice || data.maxPrice >= data.minPrice)
PriceRangeOk(data) ==
    \/ ~Truthy(data["maxPrice"])
    \/ ~Truthy(data["minPrice"])
    \/ data["maxPrice"].n >= data["minPrice"].n

\* .refine(data => data.query || data.category || data.location)
HasSearchTerm(data) ==
    Truthy(data["query"]) \/ Truthy(data["category"]) \/ Truthy(data["location"])

\* ZodEffects (refinement): skipped when the inner schema aborted.
Refine(inner, ok, issue) ==
    IF inner.status = "aborted" \/ ok THEN inner
    ELSE [inner EXCEPT !.status = "dirty", !.issues = @ \o <<issue>>]

\* inputSchema.parse(args): [ok, value, issues]; not ok means a ZodError
\* carrying the issues is thrown.
SchemaParse(schema, args) ==
    LET obj == ParseObject(Shape(schema), args)
        res == IF schema = "search"
               THEN LET r1 == Refine(obj, PriceRangeOk(obj.value),
                                     Issue("maxPrice", MaxPriceMsg))
                    IN  Refine(r1, HasSearchTerm(r1.value),
                               Issue("query", AtLeastOneMsg))
               ELSE obj
    IN  [ok |-> res.status = "valid", value |-> res.value, issues |-> res.issues]

-----------------------------------------------------------------------------
(* BaseTool.execute (tools/base/base-tool.ts).                             *)

\* error.errors.map(err => `${err.path.join('.')}: ${err.message}`)
FormatIssue(issue) == issue.path \o ": " \o issue.message

\* .join(', ') from the i-th issue on.
RECURSIVE JoinIssues(_, _)
JoinIssues(issues, i) ==
    IF i > Len(issues) THEN <<>>
    ELSE (IF i > 1 THEN <<", ">> ELSE <<>>)
         \o <<FormatIssue(issues[i])>> \o JoinIssues(issues, i + 1)

ValidationPrefix == "Validation error: "

\* The catch block of execute: what the caught value becomes.
CatchToResult(thrown) ==
    IF thrown.kind = "Error" /\ thrown.cls = "ZodError"
    THEN createError(MkError("Error",
                             <<ValidationPrefix>> \o JoinIssues(thrown.issues, 1),
                             "execute"))
    ELSE IF thrown.kind = "Error"
    THEN createError(thrown)
    ELSE createError(MkError("Error", StringOf(thrown), "execute"))

\* execute with the token check moved behind the validation.
ExecuteEntry_ValidateFirst(schema, args, sig) ==
    LET p == SchemaParse(schema, args)
    IN  IF ~p.ok
        THEN [next |-> "done", parsed |-> 1, called |-> 0, implArgs |-> Unset,
              result |-> CatchToResult(MkZodError(p.issues, "execute"))]
        ELSE IF sig = "aborted"
        THEN [next |-> "done", parsed |-> 1, called |-> 0, implArgs |-> Unset,
              result |-> CatchToResult(MkError("Error", CancelledMessage,
                                               "execute"))]
        ELSE [next |-> "impl", parsed |-> 1, called |-> 1,
              implArgs |-> p.value, result |-> Unset]

\* execute without the token check.
ExecuteEntry_NoTokenCheck(schema, args, sig) ==
    LET p == SchemaParse(schema, args)
    IN  IF p.ok
        THEN [next |-> "impl", parsed |-> 1, called |-> 1,
              implArgs |-> p.value, result |-> Unset]
        ELSE [next |-> "done", parsed |-> 1, called |-> 0, implArgs |-> Unset,
              result |-> CatchToResult(MkZodError(p.issues, "execute"))]

\* execute up to its first await: the token check, the parse and the call of
\* executeImpl.  next = "impl" means executeImpl was invoked with implArgs
\* and execute awaits it.
ExecuteEntry(schema, args, sig) ==
    IF sig = "aborted"
    THEN [next |-> "done", parsed |-> 0, called |-> 0, implArgs |-> Unset,
          result |-> CatchToResult(MkError("Error", CancelledMessage, "execute"))]
    ELSE LET p == SchemaParse(schema, args)
         IN  IF p.ok
             THEN [next |-> "impl", parsed |-> 1, called |-> 1,
                   implArgs |-> p.value, result |-> Unset]
             ELSE [next |-> "done", parsed |-> 1, called |-> 0,
                   implArgs |-> Unset,
                   result |-> CatchToResult(MkZodError(p.issues, "execute"))]

\* execute after executeImpl settled.
ExecuteSettle(outcome) ==
    IF outcome.kind = "return" THEN createResult(outcome.value)
    ELSE CatchToResult(outcome.thrown)

-----------------------------------------------------------------------------
(* SpecTool: one execute() call of a tool with an arbitrary executeImpl.   *)

SearchArgsSet ==
    [domain   : {Str("olx.pt"), Str("olx.xx"), Undef},
     query    : {Undef, Str("phone"), Str(""), LongStr},
     category : {Undef, Str("")},
     location : {Undef},
     minPrice : {Undef, Num(100), Num(-1)},
     maxPrice : {Undef, Num(50), Num(100), Num(0), Str("cheap")},
     page     : {Undef, Num(0)},
     limit    : {Undef, Num(51)},
     sortBy   : {Undef}]

DetailsArgsSet ==
    [domain            : {Str("olx.pl"), Str("olx.xx"), Num(7)},
     listingId         : {Str("X"), Str(""), Undef},
     includeImages     : {Undef, Bool(TRUE), Str("yes")},
     includeSellerInfo : {Undef, Bool(FALSE)}]

ArgsSet(schema) == IF schema = "search" THEN SearchArgsSet ELSE DetailsArgsSet

\* How an executeImpl can settle.
ImplValues == {[data |-> "value-1"], [data |-> "value-2"]}
ImplOutcomes ==
    {[kind |-> "return", value |-> v, thrown |-> Unset] : v \in ImplValues}
    \cup {[kind |-> "throw", value |-> Unset, thrown |-> t] :
            t \in {MkError("Error", <<"Negative values not allowed">>, "impl"),
                   MkZodError(<<Issue("url", "Invalid url")>>, "impl"),
                   ThrownString("String error"),
                   ThrownObject}}

ToolInit ==
    /\ tSchema \in {"search", "details"}
    /\ tArgs \in ArgsSet(tSchema)
    /\ tSignal \in {"none", "clear", "aborted"}
    /\ tAtEntry = NotEntered
    /\ tPc = "new"
    /\ tParsed = 0
    /\ tImplCalls = 0
    /\ tImplArgs = Unset
    /\ tOutcome = Unset
    /\ tResult = Unset

\* execute(args, signal) is called and runs to its first await or its return.
ToolExecute ==
    /\ tPc = "new"
    /\ LET e == ExecuteEntry(tSchema, tArgs, tSignal)
       IN  /\ tPc' = e.next
           /\ tParsed' = e.parsed
           /\ tImplCalls' = e.called
           /\ tImplArgs' = e.implArgs
           /\ tResult' = e.result
    /\ tAtEntry' = tSignal
    /\ UNCHANGED <<tSchema, tArgs, tSignal, tOutcome>>
    /\ UNCHANGED notTool

\* The caller signals the token while executeImpl is in flight.
ToolAbort ==
    /\ tPc = "impl"
    /\ tSignal = "clear"
    /\ tSignal' = "aborted"
    /\ UNCHANGED <<tSchema, tArgs, tAtEntry, tPc, tParsed, tImplCalls,
                   tImplArgs, tOutcome, tResult>>
    /\ UNCHANGED notTool

\* executeImpl settles and execute returns.
ToolImplSettles ==
    /\ tPc = "impl"
    /\ \E outcome \in ImplOutcomes :
         /\ tOutcome' = outcome
         /\ tResult' = ExecuteSettle(outcome)
    /\ tPc' = "done"
    /\ UNCHANGED <<tSchema, tArgs, tSignal, tAtEntry, tParsed, tImplCalls,
                   tImplArgs>>
    /\ UNCHANGED notTool

ToolNext == ToolExecute \/ ToolAbort \/ ToolImplSettles

-----------------------------------------------------------------------------
(* PlaywrightScraper.retryOperation (scrapers/base/scraper.interface.ts).  *)

RECURSIVE Pow2(_)
Pow2(n) == IF n <= 0 THEN 1 ELSE 2 * Pow2(n - 1)

Min(a, b) == IF a <= b THEN a ELSE b

\* The backoff without its cap.
BackoffDelay_NoCap(attempt) == 1000 * Pow2(attempt - 1)

\* const delay = Math.min(1000 * Math.pow(2, attempt - 1), 10000)
BackoffDelay(attempt) == Min(1000 * Pow2(attempt - 1), 10000)

\* lastError = error instanceof Error ? error : new Error(String(error))
NormalizeError(thrown) ==
    IF thrown.kind = "Error" THEN thrown
    ELSE MkError("Error", StringOf(thrown), "retry")

\* The loop giving up one attempt late.
RetryDecision_OneTooMany(attempt, maxRetries) ==
    IF attempt = maxRetries + 1
    THEN [rethrow |-> TRUE, delay |-> 0]
    ELSE [rethrow |-> FALSE, delay |-> BackoffDelay(attempt)]

\* The catch block of the loop: rethrow on the last attempt, else back off.
RetryDecision(attempt, maxRetries) ==
    IF attempt = maxRetries
    THEN [rethrow |-> TRUE, delay |-> 0]
    ELSE [rethrow |-> FALSE, delay |-> BackoffDelay(attempt)]

-----------------------------------------------------------------------------
(* SpecRetry: retryOperation(operation, maxRetries) with an operation that *)
(* may fail or succeed on each attempt.                                    *)

MaxAttempts == 6

\* The errors an operation rejects with: Error objects, as Playwright and
\* withPage raise them; distinct messages tell the attempts apart.
OperationErrors ==
    {MkError("Error", <<m>>, "operation") :
        m \in {"Navigation failed", "Timeout exceeded"}}
OperationValues == {[data |-> "result-1"], [data |-> "result-2"]}

RetryInit ==
    /\ rMax \in 1..MaxAttempts
    /\ rAttempt = 0
    /\ rPc = "new"
    /\ rLog = <<>>
    /\ rLastError = Unset
    /\ rOutcome = Unset

LogEntry(type, attempt, error, value, delay) ==
    [type |-> type, attempt |-> attempt, error |-> error, value |-> value,
     delay |-> delay]

\* retryOperation is called: the loop starts (not at all when maxRetries
\* < 1) and the first operation() is invoked.
RetryCall ==
    /\ rPc = "new"
    /\ rAttempt' = 1
    /\ rPc' = "operation"
    /\ UNCHANGED <<rMax, rLog, rLastError, rOutcome>>
    /\ UNCHANGED notRetry

\* The awaited operation() resolves: return await operation().
RetryOperationResolves ==
    /\ rPc = "operation"
    /\ \E v \in OperationValues :
         /\ rLog' = Append(rLog, LogEntry("ok", rAttempt, Unset, v, 0))
         /\ rOutcome' = [kind |-> "return", value |-> v, thrown |-> Unset]
    /\ rPc' = "done"
    /\ UNCHANGED <<rMax, rAttempt, rLastError>>
    /\ UNCHANGED notRetry

\* The awaited operation() rejects: the catch block.
RetryOperationRejects ==
    /\ rPc = "operation"
    /\ \E e \in OperationErrors :
         LET d == RetryDecision(rAttempt, rMax)
             err == NormalizeError(e)
         IN  /\ rLastError' = err
             /\ IF d.rethrow
                THEN /\ rLog' = Append(rLog, LogEntry("fail", rAttempt, e, Unset, 0))
                     /\ rOutcome' = [kind |-> "throw", value |-> Unset,
                                     thrown |-> err]
                     /\ rPc' = "done"
                ELSE /\ rLog' = rLog \o <<LogEntry("fail", rAttempt, e, Unset, 0),
                                          LogEntry("delay", rAttempt, Unset, Unset,
                                                   d.delay)>>
                     /\ rOutcome' = rOutcome
                     /\ rPc' = "backoff"
    /\ UNCHANGED <<rMax, rAttempt>>
    /\ UNCHANGED notRetry

\* The setTimeout of the backoff fires: attempt++ and the next operation().
RetryBackoffElapsed ==
    /\ rPc = "backoff"
    /\ rAttempt' = rAttempt + 1
    /\ rPc' = "operation"
    /\ UNCHANGED <<rMax, rLog, rLastError, rOutcome>>
    /\ UNCHANGED notRetry

RetryNext ==
    \/ RetryCall
    \/ RetryOperationResolves
    \/ RetryOperationRejects
    \/ RetryBackoffElapsed

-----------------------------------------------------------------------------
(* The scrapers: URLs, listing ids, the page a search shows.               *)
(* A URL or href is its string cut into tokens, e.g.                       *)
(*   <<"https://www.olx.pt", "/d/anuncio/item-", "ID", "X", ".html">>.     *)

Ops == {"a", "b"}

\* config.retries of every BaseOlxScraper.
MaxRetries == 3

MaxCalls == 2
MaxCards == 2

CallDomains == {"olx.pt", "olx.pl"}
ListingIds == {"X", "Y"}

BaseUrl(d) == "https://www." \o d

\* The flat listing path of urlPatterns.searchPath and of findListingUrl.
AdsPath(d) == IF d = "olx.pl" THEN "/oferty/" ELSE "/ads/"

\* buildSearchUrl for filters that carry only a domain and a query that is
\* its own slug: no location segment and no query parameter.
BuildSearchUrl(d, query) == <<BaseUrl(d), AdsPath(d), "q-", query, "/">>

\* The search-by-id URL findListingUrl navigates to.
FindUrl(d, id) == <<BaseUrl(d), AdsPath(d), "q-", id, "/">>

ItemHref(id) == <<"/d/anuncio/item-", "ID", id, ".html">>
PromotedHref(id) == <<"/d/anuncio/promoted-item-", "ID", id, ".html">>

\* A link new URL(href, baseUrl) cannot parse (no host).
InvalidHref == <<"//">>

\* A link to a page of search results, as a card that advertises a category
\* or a saved search carries it.
SearchPageHref == <<"/ads/q-phone/">>

\* The hrefs a result card may carry; <<>> is the empty string.  Listing X is
\* on offer under two URLs, listing Y is never among the results.
Hrefs == {<<>>, ItemHref("X"), PromotedHref("X"), InvalidHref}

\* The result cards a page may show: complete ones, one without a title, one
\* without a link and one whose link is no URL.
Cards ==
    {[title |-> "Phone", href |-> ItemHref("X")],
     [title |-> "Phone", href |-> PromotedHref("X")],
     [title |-> "", href |-> ItemHref("X")],
     [title |-> "Phone", href |-> <<>>],
     [title |-> "Phone", href |-> InvalidHref]}

RECURSIVE SeqsUpTo(_, _)
SeqsUpTo(S, n) ==
    IF n = 0 THEN {<<>>}
    ELSE LET shorter == SeqsUpTo(S, n - 1)
         IN  shorter \cup {Append(q, x) : q \in {r \in shorter : Len(r) = n - 1},
                                          x \in S}

\* What page.$$(listingCard) may return.
PageContents == SeqsUpTo(Cards, MaxCards)

\* Date.now().toString()
Times == {"1700000000000"}

\* new URL(relativeUrl, baseUrl) raises a TypeError for a link it cannot parse.
UrlParses(href) == href # InvalidHref

\* new URL(relativeUrl, baseUrl).toString() for a path-absolute href.
ResolveUrl(href, d) == <<BaseUrl(d)>> \o href

\* An extractListingId without the fallback: no id for a link without the
\* pattern.
ExtractListingId_NoFallback(href, now) ==
    LET hits == {i \in 1..Len(href) : /\ href[i] = "ID"
                                      /\ i + 2 <= Len(href)
                                      /\ href[i + 2] = ".html"}
    IN  IF hits = {} THEN ""
        ELSE href[(CHOOSE i \in hits : \A j \in hits : i <= j) + 1]

\* url.match(/ID([A-Za-z0-9]+)\.html/)?.[1] ?? Date.now().toString()
ExtractListingId(href, now) ==
    LET hits == {i \in 1..Len(href) : /\ href[i] = "ID"
                                      /\ i + 2 <= Len(href)
                                      /\ href[i + 2] = ".html"}
    IN  IF hits = {} THEN now
        ELSE href[(CHOOSE i \in hits : \A j \in hits : i <= j) + 1]

\* A loop body that skips only the cards without a title.
SkipCard_TitleOnly(card) == card.title = ""

\* if (!title || !relativeUrl) continue, and the catch of the loop body, which
\* new URL() reaches before anything is cached or appended.
SkipCard(card) ==
    card.title = "" \/ card.href = <<>> \/ ~UrlParses(card.href)

\* A cache that keeps the URL an id was first seen with.
CacheSet_FirstWins(cache, id, url) ==
    [k \in DOMAIN cache \cup {id} |-> IF k \in DOMAIN cache THEN cache[k] ELSE url]

\* this.urlCache.set(id, url)
CacheSet(cache, id, url) ==
    [k \in DOMAIN cache \cup {id} |-> IF k = id THEN url ELSE cache[k]]

\* One iteration of the loop of extractListings: the card is skipped, or
\* cached and appended.
RECURSIVE ExtractFrom(_, _, _, _, _)
ExtractFrom(cards, i, d, now, acc) ==
    IF i > Len(cards) THEN acc
    ELSE LET card == cards[i]
         IN  IF SkipCard(card)
             THEN ExtractFrom(cards, i + 1, d, now, acc)
             ELSE LET url == ResolveUrl(card.href, d)
                      id == ExtractListingId(card.href, now)
                      listing == [id |-> id, title |-> card.title, url |-> url]
                      cache == CacheSet(acc.cache, id, url)
                  IN  ExtractFrom(cards, i + 1, d, now,
                                  [cache |-> cache,
                                   listings |-> Append(acc.listings, listing)])

\* extractListings(page): the listings and the URL cache afterwards.
ExtractListings(cards, d, now, cache) ==
    ExtractFrom(cards, 1, d, now, [cache |-> cache, listings |-> <<>>])

\* A lookup that never hits.
CachedUrl_AlwaysMiss(cache, id) == <<>>

\* A not-found test that never fires.
UrlMissing_Never(finalUrl) == FALSE

\* this.urlCache.get(listingId): <<>> stands for undefined.  A cached URL is
\* never empty (ResolveUrl puts the base URL in front), so it is truthy.
CachedUrl(cache, id) == IF id \in DOMAIN cache THEN cache[id] ELSE <<>>

\* if (!finalUrl): the empty string is the only falsy URL.
UrlMissing(finalUrl) == finalUrl = <<>>

\* waitForSearchResults rethrowing the timeout of its two waits.
waitForSearchResults_Rethrow(raced) ==
    IF raced = "timeout" THEN "rejected" ELSE "resolved"

\* waitForSearchResults: the race of the two waitForSelector calls settles
\* with a result card ("card"), the no-results marker ("no-results") or the
\* timeout of both ("timeout"); the catch swallows the timeout.
waitForSearchResults(raced) == "resolved"

ItemsPerPage == 40

\* Math.ceil(totalCount / itemsPerPage)
CeilDiv(a, b) == (a + b - 1) \div b

Max(a, b) == IF a >= b THEN a ELSE b

\* A pagination without the floor of one page.
extractPaginationInfo_Unfloored(totalCount, hasNextPage, currentPage) ==
    [totalCount |-> totalCount,
     currentPage |-> currentPage,
     totalPages |-> CeilDiv(totalCount, ItemsPerPage),
     hasNextPage |-> hasNextPage]

\* extractPaginationInfo(page, currentPage) given what the page lookups gave.
extractPaginationInfo(totalCount, hasNextPage, currentPage) ==
    [totalCount |-> totalCount,
     currentPage |-> currentPage,
     totalPages |-> Max(CeilDiv(totalCount, ItemsPerPage), 1),
     hasNextPage |-> hasNextPage]

\* What the total-count element of a page can give: 0 when it is absent or
\* shows no number; a page without result cards shows no other count.
TotalCounts(cards) == IF cards = <<>> THEN {0} ELSE {0, 41}

NotFoundMessage(id) ==
    <<"Listing with ID ", id, " not found. Try searching first to cache the URL.">>

-----------------------------------------------------------------------------
(* Spec: SearchListingsTool and GetListingDetailsTool calls.  A call runs  *)
(* execute -> executeImpl -> factory.getScraper -> scrape() or             *)
(* getListingDetails() -> retryOperation -> withPage -> fn, and every      *)
(* await of that chain is a step of its own.                               *)

IdleOp ==
    [pc |-> "idle", tool |-> "", domain |-> "", query |-> "", listingId |-> "",
     limit |-> 0, page |-> 0,
     attempt |-> 0, finalUrl |-> <<>>, waited |-> "", cards |-> <<>>,
     listings |-> <<>>, pending |-> Unset, lastError |-> Unset,
     scraperResult |-> Unset, result |-> Unset]

IdleHist ==
    [atEntry |-> NotEntered, parsed |-> 0, implCalls |-> 0, obtained |-> FALSE,
     navs |-> <<>>, delays |-> <<>>, finds |-> <<>>, checks |-> <<>>,
     errors |-> <<>>, waits |-> <<>>, envFailed |-> FALSE,
     cacheAtCall |-> {}, extracted |-> {},
     seen |-> [observed |-> FALSE, pages |-> 0, navs |-> 0, delays |-> 0]]

\* The raw arguments the calls of Spec are made with.
MainArgs(tool) ==
    IF tool = "search"
    THEN {[domain |-> Str(d), query |-> Str("phone"), category |-> Undef,
           location |-> Undef, minPrice |-> Undef, maxPrice |-> Undef,
           page |-> Undef, limit |-> l, sortBy |-> Undef] :
             d \in CallDomains \cup {"olx.xx"}, l \in {Undef, Num(1)}}
    ELSE {[domain |-> Str(d), listingId |-> Str(id), includeImages |-> Undef,
           includeSellerInfo |-> Undef] :
             d \in CallDomains, id \in ListingIds \cup {""}}

Return(v) == [kind |-> "return", value |-> v, thrown |-> Unset]
Throw(e) == [kind |-> "throw", value |-> Unset, thrown |-> e]

\* A page as browser.newPage() returns it.
NewPage(attempt) ==
    [attempt |-> attempt, open |-> TRUE, closes |-> 0, fn |-> "none",
     fnAtClose |-> "open", outcome |-> "none", done |-> FALSE]

\* withPage leaving the page to the next attempt (no close).
WithPageFinally_KeepOpen(page, outcome) == [page EXCEPT !.outcome = outcome.kind]

\* withPage closing the page after a successful fn only (no finally).
WithPageFinally_OnSuccessOnly(page, outcome) ==
    IF outcome.kind = "return"
    THEN [page EXCEPT !.open = FALSE, !.closes = @ + 1, !.fnAtClose = page.fn,
                      !.outcome = outcome.kind]
    ELSE [page EXCEPT !.outcome = outcome.kind]

\* The finally block of withPage: page.close() is called whatever fn did.
WithPageFinally(page, outcome) ==
    [page EXCEPT !.open = FALSE, !.closes = @ + 1, !.fnAtClose = page.fn,
                 !.outcome = outcome.kind]

\* fn settled (or was never started) with outcome: the finally block runs and
\* withPage awaits page.close().
LeaveFn(pgs, outcome) ==
    LET n == Len(pgs)
        settled == [pgs[n] EXCEPT !.fn = IF @ = "running" THEN "settled" ELSE @]
    IN  [pgs EXCEPT ![n] = WithPageFinally(settled, outcome)]

\* One `if (signal?.aborted)` check-point, recorded in the history.
Checked(h, attempt, point, sig, pgs) ==
    LET withCheck == [h EXCEPT !.checks =
                        Append(@, [attempt |-> attempt, point |-> point,
                                   aborted |-> sig = "aborted"])]
    IN  IF sig = "aborted" /\ ~h.seen.observed
        THEN [withCheck EXCEPT !.seen = [observed |-> TRUE,
                                         pages |-> Len(pgs),
                                         navs |-> Len(h.navs),
                                         delays |-> Len(h.delays)]]
        ELSE withCheck

Nav(attempt, kind, url) == [attempt |-> attempt, kind |-> kind, url |-> url]

\* scrape() / getListingDetails() wrapping what was raised in a new error.
ScraperResult_Wrapped(outcome) ==
    IF outcome.kind = "return" THEN createResult(outcome.value)
    ELSE createError(MkError("Error",
                             <<"Scraping failed: ">> \o outcome.thrown.message,
                             "scrape"))

\* scrape() / getListingDetails(): the Result made of what retryOperation
\* returned or raised.
ScraperResult(outcome) ==
    IF outcome.kind = "return" THEN createResult(outcome.value)
    ELSE createError(NormalizeError(outcome.thrown))

\* executeImpl of both tools: return result.data, or throw result.error.
ToolImplOutcome(scraperResult) ==
    IF scraperResult.success THEN Return(scraperResult.data)
    ELSE Throw(scraperResult.error)

\* The messages of the model that hold, in lower case, one of 'timeout',
\* 'connection', 'network', 'econnreset', 'enotfound'.
RetryableMessages == {"net::ERR_CONNECTION_REFUSED", "Timeout 10000ms exceeded"}

\* isRetryableError(error) of core/errors.ts, for an error that is no
\* BaseError.
isRetryableError(error) == \E i \in 1..Len(error.message) : error.message[i] \in RetryableMessages

\* A catch that goes on only after an error isRetryableError accepts.
RetriedAfter_IfRetryable(error) == isRetryableError(error)

\* The catch of retryOperation goes on to the attempt test whatever the error
\* is: nothing in it looks at the error.
RetriedAfter(error) == TRUE

\* The attempt's withPage settled with outcome: retryOperation returns, backs
\* off, or gives up, and in the first and last case the call completes.
AfterAttempt(o, outcome) ==
    LET d == RetryDecision(op[o].attempt, MaxRetries)
        final == \/ outcome.kind = "return"
                 \/ d.rethrow
                 \/ ~RetriedAfter(outcome.thrown)
        last == IF outcome.kind = "return" THEN outcome
                ELSE Throw(NormalizeError(outcome.thrown))
        sres == ScraperResult(last)
    IN  [op |-> IF final
                THEN [op[o] EXCEPT !.pc = "done", !.pending = Unset,
                                   !.lastError = IF outcome.kind = "throw"
                                                 THEN last.thrown ELSE @,
                                   !.scraperResult = sres,
                                   !.result = ExecuteSettle(ToolImplOutcome(sres))]
                ELSE [op[o] EXCEPT !.pc = "backoff", !.pending = Unset,
                                   !.lastError = last.thrown],
         hist |-> LET h == IF outcome.kind = "return" THEN hist[o]
                           ELSE [hist[o] EXCEPT !.errors =
                                   Append(@, [attempt |-> op[o].attempt,
                                              error |-> outcome.thrown])]
                  IN  IF final THEN h
                      ELSE [h EXCEPT !.delays = Append(@, d.delay)],
         success |-> outcome.kind = "return"]

MainInit ==
    /\ op = [o \in Ops |-> IdleOp]
    /\ signal = [o \in Ops |-> "none"]
    /\ pages = [o \in Ops |-> <<>>]
    /\ hist = [o \in Ops |-> IdleHist]
    /\ scrapers = {}
    /\ urlCache = [d \in CallDomains |-> <<>>]
    /\ surfaced = [d \in CallDomains |-> {}]
    /\ callsMade = 0

\* executeImpl begins: the scraper is obtained and attempt 1 of
\* retryOperation runs up to the awaited browser.newPage().
Started(tool, implArgs) ==
    [IdleOp EXCEPT
       !.pc = "newPage", !.tool = tool,
       !.domain = implArgs["domain"].s,
       !.query = IF tool = "search" THEN implArgs["query"].s ELSE "",
       !.listingId = IF tool = "details" THEN implArgs["listingId"].s ELSE "",
       !.limit = IF tool = "search" THEN implArgs["limit"].n ELSE 0,
       !.page = IF tool = "search" THEN implArgs["page"].n ELSE 0,
       !.attempt = 1]

\* execute went through the token check and the parse with entry e.
Entered(o, tool, sig, e) ==
    /\ signal' = [signal EXCEPT ![o] = sig]
    /\ IF e.next = "done"
       THEN /\ op' = [op EXCEPT ![o] = [IdleOp EXCEPT !.pc = "done",
                                        !.tool = tool,
                                        !.result = e.result]]
            /\ hist' = [hist EXCEPT ![o] =
                          [@ EXCEPT !.atEntry = sig, !.parsed = e.parsed,
                                    !.implCalls = e.called]]
            /\ scrapers' = scrapers
       ELSE /\ op' = [op EXCEPT ![o] = Started(tool, e.implArgs)]
            /\ hist' = [hist EXCEPT ![o] =
                          [@ EXCEPT !.atEntry = sig, !.parsed = e.parsed,
                                    !.implCalls = e.called,
                                    !.obtained = TRUE,
                                    !.cacheAtCall =
                                       DOMAIN urlCache[e.implArgs["domain"].s]]]
            /\ scrapers' = scrapers \cup {e.implArgs["domain"].s}

\* tool.execute(args, signal): the token check, the parse, and with valid
\* arguments executeImpl, which obtains the scraper and starts attempt 1 of
\* retryOperation up to the awaited browser.newPage().
Call(o) ==
    /\ op[o].pc = "idle"
    /\ callsMade < MaxCalls
    /\ \E tool \in {"search", "details"}, sig \in {"clear", "aborted"} :
       \E args \in MainArgs(tool) :
         Entered(o, tool, sig, ExecuteEntry(tool, args, sig))
    /\ callsMade' = callsMade + 1
    /\ UNCHANGED <<pages, urlCache, surfaced>>
    /\ UNCHANGED notMain

\* browser.newPage() resolves: withPage checks the token, then starts fn up to
\* its first await: the search navigation, or for details the navigation to
\* the cached URL or the one findListingUrl begins with.
NewPageResolves(o) ==
    /\ op[o].pc = "newPage"
    /\ LET pgs == Append(pages[o], NewPage(op[o].attempt))
           h == Checked(hist[o], op[o].attempt, "before-fn", signal[o], pgs)
           d == op[o].domain
           id == op[o].listingId
           running == [pgs EXCEPT ![Len(pgs)].fn = "running"]
       IN  IF signal[o] = "aborted"
           THEN LET out == Throw(MkError("Error", CancelledMessage, "withPage"))
                IN  /\ pages' = [pages EXCEPT ![o] = LeaveFn(pgs, out)]
                    /\ op' = [op EXCEPT ![o].pc = "closing", ![o].pending = out]
                    /\ hist' = [hist EXCEPT ![o] = h]
           ELSE IF op[o].tool = "search"
           THEN /\ pages' = [pages EXCEPT ![o] = running]
                /\ op' = [op EXCEPT ![o].pc = "goto"]
                /\ hist' = [hist EXCEPT ![o] =
                              [h EXCEPT !.navs =
                                 Append(@, Nav(op[o].attempt, "search",
                                               BuildSearchUrl(d, op[o].query)))]]
           ELSE IF CachedUrl(urlCache[d], id) # <<>>
           THEN /\ pages' = [pages EXCEPT ![o] = running]
                /\ op' = [op EXCEPT ![o].pc = "goto",
                                    ![o].finalUrl = CachedUrl(urlCache[d], id)]
                /\ hist' = [hist EXCEPT ![o] =
                              [h EXCEPT !.navs =
                                 Append(@, Nav(op[o].attempt, "detail",
                                               CachedUrl(urlCache[d], id)))]]
           ELSE /\ pages' = [pages EXCEPT ![o] = running]
                /\ op' = [op EXCEPT ![o].pc = "find", ![o].finalUrl = <<>>]
                /\ hist' = [hist EXCEPT ![o] =
                              [h EXCEPT !.navs =
                                 Append(@, Nav(op[o].attempt, "find",
                                               FindUrl(d, id)))]]
    /\ UNCHANGED <<signal, scrapers, urlCache, surfaced, callsMade>>
    /\ UNCHANGED notMain

\* browser.newPage() rejects: withPage raises before its try block.
NewPageRejects(o) ==
    /\ op[o].pc = "newPage"
    /\ LET a == AfterAttempt(o, Throw(MkError("Error", <<"Browser has been closed">>,
                                              "playwright")))
       IN  /\ op' = [op EXCEPT ![o] = a.op]
           /\ hist' = [hist EXCEPT ![o] = [a.hist EXCEPT !.envFailed = TRUE]]
    /\ UNCHANGED <<signal, pages, scrapers, urlCache, surfaced, callsMade>>
    /\ UNCHANGED notMain

\* The links findListingUrl's selector a[href*="ID<listingId>"] can match.
MatchingHrefs(id) ==
    {h \in {ItemHref(i) : i \in ListingIds} \cup {PromotedHref(i) : i \in ListingIds} :
        \E i \in 1..Len(h) : h[i] = "ID" /\ i < Len(h) /\ h[i + 1] = id}

\* A lookup that stores the URL it found.
CacheAfterFind_Stored(cache, id, found) ==
    IF found = <<>> THEN cache ELSE CacheSet(cache, id, found)

\* The URL cache after findListingUrl returned: neither findListingUrl nor
\* performGetListingDetails writes to it.
CacheAfterFind(cache, id, found) == cache

\* findListingUrl settles: '' when its navigation or lookup failed, else the
\* resolved link.  On '' fn raises the not-found error; else it navigates to
\* the listing page.
FindSettles(o) ==
    /\ op[o].pc = "find"
    /\ \E found \in {<<>>} \cup {ResolveUrl(h, op[o].domain) :
                                   h \in MatchingHrefs(op[o].listingId)} :
         LET h == [hist[o] EXCEPT !.finds =
                     Append(@, [attempt |-> op[o].attempt, url |-> found])]
         IN  /\ urlCache' = [urlCache EXCEPT ![op[o].domain] =
                              CacheAfterFind(@, op[o].listingId, found)]
             /\ IF UrlMissing(found)
                THEN LET out == Throw(MkError("Error",
                                              NotFoundMessage(op[o].listingId),
                                              "performGetListingDetails"))
                     IN  /\ pages' = [pages EXCEPT ![o] = LeaveFn(pages[o], out)]
                         /\ op' = [op EXCEPT ![o].pc = "closing", ![o].pending = out]
                         /\ hist' = [hist EXCEPT ![o] = h]
                ELSE /\ pages' = pages
                     /\ op' = [op EXCEPT ![o].pc = "goto", ![o].finalUrl = found]
                     /\ hist' = [hist EXCEPT ![o] =
                                   [h EXCEPT !.navs =
                                      Append(@, Nav(op[o].attempt, "detail", found))]]
    /\ UNCHANGED <<signal, scrapers, surfaced, callsMade>>
    /\ UNCHANGED notMain

\* page.goto(url, {waitUntil: 'networkidle'}) of fn rejects.
GotoRejects(o) ==
    /\ op[o].pc = "goto"
    /\ LET out == Throw(MkError("Error", <<"net::ERR_CONNECTION_REFUSED">>,
                                "playwright"))
       IN  /\ pages' = [pages EXCEPT ![o] = LeaveFn(pages[o], out)]
           /\ op' = [op EXCEPT ![o].pc = "closing", ![o].pending = out]
           /\ hist' = [hist EXCEPT ![o].envFailed = TRUE]
    /\ UNCHANGED <<signal, scrapers, urlCache, surfaced, callsMade>>
    /\ UNCHANGED notMain

\* page.goto resolves.  A search goes on to await waitForSearchResults; a
\* details lookup checks the token at once and then starts extracting.
GotoResolves(o) ==
    /\ op[o].pc = "goto"
    /\ IF op[o].tool = "search"
       THEN /\ op' = [op EXCEPT ![o].pc = "wait"]
            /\ UNCHANGED <<pages, hist>>
       ELSE LET h == Checked(hist[o], op[o].attempt, "after-load", signal[o],
                             pages[o])
            IN  /\ hist' = [hist EXCEPT ![o] = h]
                /\ IF signal[o] = "aborted"
                   THEN LET out == Throw(MkError("Error", CancelledMessage,
                                                 "performGetListingDetails"))
                        IN  /\ pages' = [pages EXCEPT ![o] = LeaveFn(pages[o], out)]
                            /\ op' = [op EXCEPT ![o].pc = "closing",
                                                ![o].pending = out]
                   ELSE /\ pages' = pages
                        /\ op' = [op EXCEPT ![o].pc = "extract"]
    /\ UNCHANGED <<signal, scrapers, urlCache, surfaced, callsMade>>
    /\ UNCHANGED notMain

\* The page lookup of fn that has no catch failed.
LookupFailure ==
    Throw(MkError("Error", <<"Execution context was destroyed">>, "playwright"))

\* waitForSearchResults settles: the token check of performSearch, then
\* extractListings starts with page.$$(listingCard).
WaitSettles(o) ==
    /\ op[o].pc = "wait"
    /\ \E raced \in {"card", "no-results", "timeout"} :
         LET h == [hist[o] EXCEPT !.waits =
                     Append(@, [attempt |-> op[o].attempt, raced |-> raced])]
             c == Checked(h, op[o].attempt, "after-load", signal[o], pages[o])
         IN  IF waitForSearchResults(raced) = "rejected"
             THEN LET out == Throw(MkError("TimeoutError", <<"Timeout 10000ms exceeded">>,
                                           "playwright"))
                  IN  /\ hist' = [hist EXCEPT ![o] = h]
                      /\ pages' = [pages EXCEPT ![o] = LeaveFn(pages[o], out)]
                      /\ op' = [op EXCEPT ![o].pc = "closing", ![o].pending = out,
                                          ![o].waited = raced]
             ELSE IF signal[o] = "aborted"
             THEN LET out == Throw(MkError("Error", CancelledMessage,
                                           "performSearch"))
                  IN  /\ hist' = [hist EXCEPT ![o] = c]
                      /\ pages' = [pages EXCEPT ![o] = LeaveFn(pages[o], out)]
                      /\ op' = [op EXCEPT ![o].pc = "closing", ![o].pending = out,
                                          ![o].waited = raced]
             ELSE /\ hist' = [hist EXCEPT ![o] = c]
                  /\ pages' = pages
                  /\ op' = [op EXCEPT ![o].pc = "cards", ![o].waited = raced]
    /\ UNCHANGED <<signal, scrapers, urlCache, surfaced, callsMade>>
    /\ UNCHANGED notMain

\* page.$$(listingCard) settles: the loop over the cards starts, or the
\* lookup raised.
ListSettles(o) ==
    /\ op[o].pc = "cards"
    /\ \E ok \in BOOLEAN :
         IF ok
         THEN /\ op' = [op EXCEPT ![o].pc = "card", ![o].cards = <<>>,
                                  ![o].listings = <<>>]
              /\ UNCHANGED <<pages, hist>>
         ELSE /\ pages' = [pages EXCEPT ![o] = LeaveFn(pages[o], LookupFailure)]
              /\ op' = [op EXCEPT ![o].pc = "closing", ![o].pending = LookupFailure]
              /\ hist' = [hist EXCEPT ![o].envFailed = TRUE]
    /\ UNCHANGED <<signal, scrapers, urlCache, surfaced, callsMade>>
    /\ UNCHANGED notMain

\* One iteration of the loop of extractListings: the awaited reads of the
\* card settle, then the card is skipped, or cached and appended.  Cards are
\* there only when the wait ended with one.
ExtractCard(o) ==
    /\ op[o].pc = "card"
    /\ op[o].waited = "card"
    /\ Len(op[o].cards) < MaxCards
    /\ \E card \in Cards, now \in Times :
         LET d == op[o].domain
             x == ExtractFrom(<<card>>, 1, d, now,
                              [cache |-> urlCache[d], listings |-> op[o].listings])
         IN  /\ urlCache' = [urlCache EXCEPT ![d] = x.cache]
             /\ op' = [op EXCEPT ![o].cards = Append(@, card),
                                 ![o].listings = x.listings]
             /\ hist' = [hist EXCEPT ![o].extracted =
                           @ \cup {x.listings[i].id : i \in 1..Len(x.listings)}]
    /\ UNCHANGED <<signal, pages, scrapers, surfaced, callsMade>>
    /\ UNCHANGED notMain

\* The loop is through: extractListings returns and extractPaginationInfo
\* awaits its first lookup.
ExtractionEnds(o) ==
    /\ op[o].pc = "card"
    /\ op[o].waited = "card" => op[o].cards # <<>>
    /\ op' = [op EXCEPT ![o].pc = "pagination"]
    /\ UNCHANGED <<signal, pages, hist, scrapers, urlCache, surfaced, callsMade>>
    /\ UNCHANGED notMain

\* extractPaginationInfo settles and fn returns the SearchResult; page.$ of
\* the next-page link has no catch and may raise.
PaginationSettles(o) ==
    /\ op[o].pc = "pagination"
    /\ \E ok \in BOOLEAN, totalCount \in TotalCounts(op[o].cards),
          hasNextPage \in BOOLEAN :
         LET info == extractPaginationInfo(totalCount, hasNextPage,
                                           IF op[o].page # 0 THEN op[o].page ELSE 1)
             out == IF ok
                    THEN Return([listings |-> op[o].listings,
                                 totalCount |-> info.totalCount,
                                 currentPage |-> info.currentPage,
                                 totalPages |-> info.totalPages,
                                 hasNextPage |-> info.hasNextPage])
                    ELSE LookupFailure
         IN  /\ pages' = [pages EXCEPT ![o] = LeaveFn(pages[o], out)]
             /\ op' = [op EXCEPT ![o].pc = "closing", ![o].pending = out]
             /\ hist' = [hist EXCEPT ![o].envFailed = @ \/ ~ok]
    /\ UNCHANGED <<signal, scrapers, urlCache, surfaced, callsMade>>
    /\ UNCHANGED notMain

\* The extraction of getListingDetails' fn runs to its end: it reads the
\* fields and then the seller; the lookup of the verified badge has no catch
\* and may raise.
ExtractSettles(o) ==
    /\ op[o].pc = "extract"
    /\ \E ok \in BOOLEAN, title \in {"", "Phone"} :
         LET out == IF ok
                    THEN Return([id |-> op[o].listingId, title |-> title,
                                 url |-> op[o].finalUrl])
                    ELSE LookupFailure
         IN  /\ pages' = [pages EXCEPT ![o] = LeaveFn(pages[o], out)]
             /\ op' = [op EXCEPT ![o].pc = "closing", ![o].pending = out]
             /\ hist' = [hist EXCEPT ![o].envFailed = @ \/ ~ok]
    /\ UNCHANGED <<signal, scrapers, urlCache, surfaced, callsMade>>
    /\ UNCHANGED notMain

\* The awaited page.close() resolves: withPage completes with what fn did, and
\* retryOperation takes over.
CloseResolves(o) ==
    /\ op[o].pc = "closing"
    /\ LET a == AfterAttempt(o, op[o].pending)
           d == op[o].domain
       IN  /\ op' = [op EXCEPT ![o] = a.op]
           /\ hist' = [hist EXCEPT ![o] = a.hist]
           /\ surfaced' =
                IF a.success /\ op[o].tool = "search"
                THEN [surfaced EXCEPT ![d] =
                        @ \cup {op[o].pending.value.listings[i].id :
                                  i \in 1..Len(op[o].pending.value.listings)}]
                ELSE surfaced
    /\ pages' = [pages EXCEPT ![o][Len(pages[o])].done = TRUE]
    /\ UNCHANGED <<signal, scrapers, urlCache, callsMade>>
    /\ UNCHANGED notMain

\* The backoff timer fires: attempt++ and the next operation() runs up to its
\* awaited browser.newPage().
BackoffElapsed(o) ==
    /\ op[o].pc = "backoff"
    /\ op' = [op EXCEPT ![o].pc = "newPage", ![o].attempt = @ + 1,
                        ![o].waited = "", ![o].cards = <<>>, ![o].listings = <<>>]
    /\ UNCHANGED <<signal, pages, hist, scrapers, urlCache, surfaced, callsMade>>
    /\ UNCHANGED notMain

\* The caller signals the call's token while the call is in flight.
Abort(o) ==
    /\ op[o].pc \notin {"idle", "done"}
    /\ signal[o] = "clear"
    /\ signal' = [signal EXCEPT ![o] = "aborted"]
    /\ UNCHANGED <<op, pages, hist, scrapers, urlCache, surfaced, callsMade>>
    /\ UNCHANGED notMain

\* The caller has its Result; the slot is free for another call.
Release(o) ==
    /\ op[o].pc = "done"
    /\ op' = [op EXCEPT ![o] = IdleOp]
    /\ signal' = [signal EXCEPT ![o] = "none"]
    /\ pages' = [pages EXCEPT ![o] = <<>>]
    /\ hist' = [hist EXCEPT ![o] = IdleHist]
    /\ UNCHANGED <<scrapers, urlCache, surfaced, callsMade>>
    /\ UNCHANGED notMain

Step(o) ==
    \/ NewPageResolves(o)
    \/ NewPageRejects(o)
    \/ FindSettles(o)
    \/ GotoRejects(o)
    \/ GotoResolves(o)
    \/ WaitSettles(o)
    \/ ListSettles(o)
    \/ ExtractCard(o)
    \/ ExtractionEnds(o)
    \/ PaginationSettles(o)
    \/ ExtractSettles(o)
    \/ CloseResolves(o)
    \/ BackoffElapsed(o)
    \/ Abort(o)
    \/ Release(o)

-----------------------------------------------------------------------------
(* BaseOlxScraper.buildSearchUrl and urlPatterns.searchPath, on strings    *)
(* given as sequences of one-character strings.  The characters are ASCII  *)
(* letters, digits, ' ', '-' and '!', and the letters with diacritics of   *)
(* Polish and Romanian, each written as its code point ("U+00F3" is the    *)
(* one character o with acute).                                            *)

LowerCase == <<"a", "b", "c", "d", "e", "f", "g", "h", "i", "j", "k", "l", "m",
               "n", "o", "p", "q", "r", "s", "t", "u", "v", "w", "x", "y", "z">>
UpperCase == <<"A", "B", "C", "D", "E", "F", "G", "H", "I", "J", "K", "L", "M",
               "N", "O", "P", "Q", "R", "S", "T", "U", "V", "W", "X", "Y", "Z">>
DigitChars == <<"0", "1", "2", "3", "4", "5", "6", "7", "8", "9">>

\* A string value with its characters.
Text(chars) == [t |-> "string", s |-> "", n |-> Len(chars), chars |-> chars]

Map1(f(_), cs) == [i \in 1..Len(cs) |-> f(cs[i])]

\* a-ogonek c-acute e-ogonek l-stroke n-acute o-acute s-acute z-acute z-dot
PolishLetters == <<"U+0105", "U+0107", "U+0119", "U+0142", "U+0144", "U+00F3",
                   "U+015B", "U+017A", "U+017C">>
PolishBase == <<"a", "c", "e", "l", "n", "o", "s", "z", "z">>
\* a-breve a-circumflex i-circumflex s-comma t-comma
RomanianLetters == <<"U+0103", "U+00E2", "U+00EE", "U+0219", "U+021B">>
RomanianBase == <<"a", "a", "i", "s", "t">>
\* O-acute and S-comma, capital, and their small letters
UpperDiacritics == <<"U+00D3", "U+0218">>
LowerDiacritics == <<"U+00F3", "U+0219">>

LowerChar(c) ==
    IF \E i \in 1..26 : UpperCase[i] = c
    THEN LowerCase[CHOOSE i \in 1..26 : UpperCase[i] = c]
    ELSE IF \E i \in 1..Len(UpperDiacritics) : UpperDiacritics[i] = c
    THEN LowerDiacritics[CHOOSE i \in 1..Len(UpperDiacritics) : UpperDiacritics[i] = c]
    ELSE c

\* s.toLowerCase()
toLowerCase(cs) == Map1(LowerChar, cs)

IsSlugChar(c) ==
    \/ \E i \in 1..26 : LowerCase[i] = c
    \/ \E i \in 1..10 : DigitChars[i] = c
    \/ c \in {" ", "-"}

\* .replace(/[^a-z0-9\s-]/g, '')
RemoveNonSlug(cs) == SelectSeq(cs, IsSlugChar)

\* .replace(/x+/g, '-'): every run of x becomes one '-'.
RECURSIVE RunsToDash(_, _, _)
RunsToDash(cs, x, i) ==
    IF i > Len(cs) THEN <<>>
    ELSE IF cs[i] # x THEN <<cs[i]>> \o RunsToDash(cs, x, i + 1)
    ELSE IF i > 1 /\ cs[i - 1] = x THEN RunsToDash(cs, x, i + 1)
    ELSE <<"-">> \o RunsToDash(cs, x, i + 1)

\* .replace(/^-|-$/g, '')
TrimDashes(cs) ==
    LET a == IF cs # <<>> /\ cs[1] = "-" THEN Tail(cs) ELSE cs
    IN  IF a # <<>> /\ a[Len(a)] = "-" THEN SubSeq(a, 1, Len(a) - 1) ELSE a

\* The chain of .replace(/<letter>/g, '<base>') over the letters.
FoldChar(letters, base, c) ==
    IF \E i \in 1..Len(letters) : letters[i] = c
    THEN base[CHOOSE i \in 1..Len(letters) : letters[i] = c] ELSE c

Fold(letters, base, cs) == [i \in 1..Len(cs) |-> FoldChar(letters, base, cs[i])]

\* The replaces of the domain's searchPath for its letters: olx.pl and
\* olx.ro have them, the other domains none.
FoldFor(d, cs) ==
    IF d = "olx.pl" THEN Fold(PolishLetters, PolishBase, cs)
    ELSE IF d = "olx.ro" THEN Fold(RomanianLetters, RomanianBase, cs)
    ELSE cs

\* querySlug of the branch without a location.  olx.pl folds its letters
\* before the characters outside [a-z0-9\s-] are removed, olx.ro after.
QuerySlug(d, query) ==
    TrimDashes(RunsToDash(RunsToDash(
        IF d = "olx.pl" THEN RemoveNonSlug(FoldFor(d, toLowerCase(query)))
        ELSE FoldFor(d, RemoveNonSlug(toLowerCase(query))),
        " ", 1), "-", 1))

\* A branch with a location that leaves the letters of the domain alone.
LocatedQuerySlug_Unfolded(d, query) ==
    TrimDashes(RunsToDash(RunsToDash(RemoveNonSlug(toLowerCase(query)), " ", 1),
                          "-", 1))

\* querySlug of the branch with a location, the same chain written again.
LocatedQuerySlug(d, query) ==
    TrimDashes(RunsToDash(RunsToDash(
        IF d = "olx.pl" THEN RemoveNonSlug(FoldFor(d, toLowerCase(query)))
        ELSE FoldFor(d, RemoveNonSlug(toLowerCase(query))),
        " ", 1), "-", 1))

\* locationSlug: lower case, runs of spaces to '-', then the folds.
LocationSlug(d, location) == FoldFor(d, RunsToDash(toLowerCase(location), " ", 1))

\* The flat listing path of the domain, in characters.
FlatPath(d) ==
    IF d = "olx.pl" THEN <<"/", "o", "f", "e", "r", "t", "y", "/">>
    ELSE <<"/", "a", "d", "s", "/">>

\* urlPatterns.searchPath(location, query)
searchPath(d, location, query) ==
    IF Truthy(location)
    THEN <<"/">> \o LocationSlug(d, location.chars)
         \o (IF Truthy(query)
             THEN <<"/", "q", "-">> \o LocatedQuerySlug(d, query.chars) \o <<"/">>
             ELSE <<"/">>)
    ELSE FlatPath(d)
         \o (IF Truthy(query)
             THEN <<"q", "-">> \o QuerySlug(d, query.chars) \o <<"/">>
             ELSE <<>>)

\* n.toString() for an integer n.
RECURSIVE NumberToString(_)
NumberToString(n) ==
    IF n < 0 THEN <<"-">> \o NumberToString(0 - n)
    ELSE IF n < 10 THEN <<DigitChars[n + 1]>>
    ELSE NumberToString(n \div 10) \o <<DigitChars[(n % 10) + 1]>>

\* urlPatterns of every domain.
CategoryParam == "c"
MinPriceParam == "search[filter_float_price:from]"
MaxPriceParam == "search[filter_float_price:to]"
SortParam == "search[order]"
PageParam == "page"
SortValue(sortBy) ==
    CASE sortBy = "date" -> "created_at:desc"
      [] sortBy = "price-asc" -> "filter_float_price:asc"
      [] sortBy = "price-desc" -> "filter_float_price:desc"
      [] OTHER -> ""

\* url.searchParams.set(key, value) on a URL that has no such parameter yet.
SetParam(params, cond, key, value) ==
    IF cond THEN Append(params, [key |-> key, value |-> value]) ELSE params

\* buildSearchUrl(filters): the URL as its origin, its path and its query
\* parameters in order.
buildSearchUrl(d, filters) ==
    LET p1 == SetParam(<<>>, Truthy(filters["category"]),
                       CategoryParam, filters["category"].s)
        p2 == SetParam(p1, Truthy(filters["minPrice"]),
                       MinPriceParam, NumberToString(filters["minPrice"].n))
        p3 == SetParam(p2, Truthy(filters["maxPrice"]),
                       MaxPriceParam, NumberToString(filters["maxPrice"].n))
        p4 == SetParam(p3, /\ Truthy(filters["sortBy"])
                           /\ filters["sortBy"].s # "relevance"
                           /\ SortValue(filters["sortBy"].s) # "",
                       SortParam, SortValue(filters["sortBy"].s))
        p5 == SetParam(p4, Truthy(filters["page"]) /\ filters["page"].n > 1,
                       PageParam, NumberToString(filters["page"].n))
    IN  [origin |-> BaseUrl(d),
         path |-> searchPath(d, filters["location"], filters["query"]),
         params |-> p5]

-----------------------------------------------------------------------------
(* SpecUrl: one buildSearchUrl call on the scraper of a domain.            *)

\* No query, '', 'Phone 12!', 'samoch\u00F3d', '\u0218al\u0103 !'.
UrlQueries ==
    {Undef, Text(<<>>), Text(<<"P", "h", "o", "n", "e", " ", "1", "2", "!">>),
     Text(<<"s", "a", "m", "o", "c", "h", "U+00F3", "d">>),
     Text(<<"U+0218", "a", "l", "U+0103", " ", "!">>)}
\* No location, 'Porto', 'Gda\u0144sk'.
UrlLocations == {Undef, Text(<<"P", "o", "r", "t", "o">>),
                 Text(<<"G", "d", "a", "U+0144", "s", "k">>)}

\* SearchFilters as the validation lets them through: prices >= 0, page >= 1.
UrlFiltersSet ==
    [query    : UrlQueries,
     location : UrlLocations,
     category : {Undef, Str("electronics")},
     minPrice : {Undef, Num(0), Num(100)},
     maxPrice : {Undef, Num(0), Num(500)},
     sortBy   : {Undef, Str("relevance"), Str("date"), Str("price-asc")},
     page     : {Undef, Num(1), Num(2)},
     limit    : {Undef}]

UrlInit ==
    /\ uDomain \in OlxDomains
    /\ uFilters \in UrlFiltersSet
    /\ uPc = "new"
    /\ uUrl = Unset

UrlBuild ==
    /\ uPc = "new"
    /\ uUrl' = buildSearchUrl(uDomain, uFilters)
    /\ uPc' = "done"
    /\ UNCHANGED <<uDomain, uFilters>>
    /\ UNCHANGED notUrl

UrlNext == UrlBuild

-----------------------------------------------------------------------------
(* OlxScraperFactory (scrapers/olx/scraper.factory.ts).                    *)
(* A Map is the set of its [key, value] entries; a scraper object is told  *)
(* from every other by the order number of its construction.               *)

MapHas(m, k) == \E e \in m : e.key = k
MapGet(m, k) == (CHOOSE e \in m : e.key = k).value
MapSet(m, k, v) == {e \in m : e.key # k} \cup {[key |-> k, value |-> v]}

NoScraper == [id |-> 0, cls |-> "", domain |-> ""]

\* The class the switch of createScraper constructs.
ScraperClass(domain) ==
    CASE domain = "olx.pt" -> "OLXPTScraper"
      [] domain = "olx.pl" -> "OLXPLScraper"
      [] OTHER -> "GenericOlxScraper"

UnsupportedMessage(domain) == <<"Unsupported OLX domain: ", domain>>

\* createScraper constructing without looking at the cache.
createScraper_NoLookup(cache, created, domain) ==
    IF domain \notin OlxDomains
    THEN [threw |-> TRUE,
          error |-> MkError("Error", UnsupportedMessage(domain), "createScraper"),
          scraper |-> NoScraper, cache |-> cache, created |-> created]
    ELSE LET sc == [id |-> created + 1, cls |-> ScraperClass(domain),
                    domain |-> domain]
         IN  [threw |-> FALSE, error |-> Unset, scraper |-> sc,
              cache |-> MapSet(cache, domain, sc), created |-> created + 1]

\* createScraper constructing a generic scraper for any identifier.
createScraper_Lazy(cache, created, domain) ==
    IF MapHas(cache, domain)
    THEN [threw |-> FALSE, error |-> Unset, scraper |-> MapGet(cache, domain),
          cache |-> cache, created |-> created]
    ELSE LET sc == [id |-> created + 1, cls |-> ScraperClass(domain),
                    domain |-> domain]
         IN  [threw |-> FALSE, error |-> Unset, scraper |-> sc,
              cache |-> MapSet(cache, domain, sc), created |-> created + 1]

\* createScraper(domain): the cached scraper, or a new one that is cached, or
\* the unsupported-domain error of the switch's default.
createScraper(cache, created, domain) ==
    IF MapHas(cache, domain)
    THEN [threw |-> FALSE, error |-> Unset, scraper |-> MapGet(cache, domain),
          cache |-> cache, created |-> created]
    ELSE IF domain \notin OlxDomains
    THEN [threw |-> TRUE,
          error |-> MkError("Error", UnsupportedMessage(domain), "createScraper"),
          scraper |-> NoScraper, cache |-> cache, created |-> created]
    ELSE LET sc == [id |-> created + 1, cls |-> ScraperClass(domain),
                    domain |-> domain]
         IN  [threw |-> FALSE, error |-> Unset, scraper |-> sc,
              cache |-> MapSet(cache, domain, sc), created |-> created + 1]

\* getScraper(domain) { return this.createScraper(domain) }
getScraper(cache, created, domain) == createScraper(cache, created, domain)

hasScraper(cache, domain) == MapHas(cache, domain)

-----------------------------------------------------------------------------
(* SpecFactory: any sequence of getScraper / createScraper / clearCache    *)
(* calls on one factory.                                                   *)

MaxFactoryCalls == 4

\* The identifiers the calls are made with; the last is not an OlxDomain.
FactoryDomains == {"olx.pt", "olx.pl", "olx.bg", "olx.invalid"}

FactoryInit ==
    /\ fScrapers = {}
    /\ fCreated = 0
    /\ fLog = <<>>

FactoryCalled(call, domain, r) ==
    /\ fScrapers' = r.cache
    /\ fCreated' = r.created
    /\ fLog' = Append(fLog, [call |-> call, domain |-> domain, threw |-> r.threw,
                             error |-> r.error, scraper |-> r.scraper,
                             before |-> fScrapers, after |-> r.cache])

FactoryGetScraper ==
    /\ Len(fLog) < MaxFactoryCalls
    /\ \E d \in FactoryDomains :
         FactoryCalled("getScraper", d, getScraper(fScrapers, fCreated, d))
    /\ UNCHANGED notFactory

FactoryCreateScraper ==
    /\ Len(fLog) < MaxFactoryCalls
    /\ \E d \in FactoryDomains :
         FactoryCalled("createScraper", d, createScraper(fScrapers, fCreated, d))
    /\ UNCHANGED notFactory

\* clearCache() { this.scrapers.clear() }
FactoryClearCache ==
    /\ Len(fLog) < MaxFactoryCalls
    /\ FactoryCalled("clearCache", "", [threw |-> FALSE, error |-> Unset,
                                        scraper |-> NoScraper, cache |-> {},
                                        created |-> fCreated])
    /\ UNCHANGED notFactory

FactoryNext == FactoryGetScraper \/ FactoryCreateScraper \/ FactoryClearCache

-----------------------------------------------------------------------------
(* SpecConc: scrape() and getListingDetails() calls in flight at the same  *)
(* time.  Each call runs retryOperation around withPage; the calls share   *)
(* the browser and, on one domain, the scraper with its urlCache.  No       *)
(* cancellation token is passed.  A step is the code between two awaits.   *)

MaxConcCards == 2

ConcIdleOp ==
    [pc |-> "idle", kind |-> "", domain |-> "", attempt |-> 0, page |-> 0,
     cards |-> 0, listings |-> <<>>, finalUrl |-> <<>>, outcome |-> "",
     result |-> "", extracted |-> {}]

\* A browser that hands out a page it already has open.
NewHandle_Pooled(browser) ==
    IF DOMAIN browser # {} THEN CHOOSE h \in DOMAIN browser : TRUE ELSE 1

\* browser.newPage() resolves with a Page object of its own: a handle none of
\* the open pages has.
NewHandle(browser) ==
    CHOOSE h \in 1..(Cardinality(DOMAIN browser) + 1) :
        /\ h \notin DOMAIN browser
        /\ \A g \in 1..(h - 1) : g \in DOMAIN browser

\* const page = await this.browser.newPage(...): the page is open.
OpenPage(browser, h, o) ==
    [g \in DOMAIN browser \cup {h} |->
        IF g = h /\ h \notin DOMAIN browser
        THEN [openedBy |-> o, users |-> {}]
        ELSE browser[g]]

\* page.goto(...) by call o.
UsePage(browser, h, o) ==
    IF h \in DOMAIN browser
    THEN [browser EXCEPT ![h].users = @ \cup {o}]
    ELSE browser

\* page.close() resolved.
ClosePage(browser, h) == [g \in DOMAIN browser \ {h} |-> browser[g]]

ConcInit ==
    /\ cOp = [o \in Ops |-> ConcIdleOp]
    /\ cBrowser = <<>>
    /\ cCache = [d \in CallDomains |-> <<>>]
    /\ cLast = [d \in CallDomains |-> <<>>]

\* fn settled with outcome: the finally block of withPage awaits page.close().
ConcLeaveFn(o, outcome) == [cOp[o] EXCEPT !.pc = "closing", !.outcome = outcome]

\* withPage settled with outcome: retryOperation returns, backs off or gives
\* up; scrape() / getListingDetails() turn that into a Result.
ConcAfterAttempt(o, outcome) ==
    IF outcome = "return"
    THEN [cOp[o] EXCEPT !.pc = "done", !.page = 0, !.result = "success"]
    ELSE IF RetryDecision(cOp[o].attempt, MaxRetries).rethrow
    THEN [cOp[o] EXCEPT !.pc = "done", !.page = 0, !.result = "failure"]
    ELSE [cOp[o] EXCEPT !.pc = "backoff", !.page = 0]

\* scraper.scrape(filters) or scraper.getListingDetails("X") is called:
\* attempt 1 of retryOperation runs up to the awaited browser.newPage().
ConcCall(o) ==
    /\ cOp[o].pc = "idle"
    /\ \E kind \in {"search", "details"}, d \in CallDomains :
         cOp' = [cOp EXCEPT ![o] = [ConcIdleOp EXCEPT !.pc = "newPage",
                                                      !.kind = kind,
                                                      !.domain = d,
                                                      !.attempt = 1]]
    /\ UNCHANGED <<cBrowser, cCache, cLast>>
    /\ UNCHANGED notConc

\* browser.newPage() resolves and fn runs up to its first await: the search
\* navigation, or for details the navigation to the cached URL or the one
\* findListingUrl begins with.
ConcNewPageResolves(o) ==
    /\ cOp[o].pc = "newPage"
    /\ LET h == NewHandle(cBrowser)
           opened == OpenPage(cBrowser, h, o)
           cached == CachedUrl(cCache[cOp[o].domain], "X")
       IN  /\ cBrowser' = UsePage(opened, h, o)
           /\ cOp' = [cOp EXCEPT
                        ![o].page = h,
                        ![o].finalUrl = IF cOp[o].kind = "details" THEN cached
                                        ELSE <<>>,
                        ![o].pc = IF cOp[o].kind = "details" /\ UrlMissing(cached)
                                  THEN "find" ELSE "goto"]
    /\ UNCHANGED <<cCache, cLast>>
    /\ UNCHANGED notConc

\* browser.newPage() rejects: the attempt fails without a page.
ConcNewPageRejects(o) ==
    /\ cOp[o].pc = "newPage"
    /\ cOp' = [cOp EXCEPT ![o] = ConcAfterAttempt(o, "throw")]
    /\ UNCHANGED <<cBrowser, cCache, cLast>>
    /\ UNCHANGED notConc

\* findListingUrl settles (it swallows its failures): with a URL, which is
\* navigated to, or with '', which fails the attempt.
ConcFindSettles(o) ==
    /\ cOp[o].pc = "find"
    /\ \E found \in BOOLEAN :
         LET finalUrl == IF found THEN ResolveUrl(ItemHref("X"), cOp[o].domain)
                         ELSE <<>>
         IN  IF UrlMissing(finalUrl)
             THEN /\ cOp' = [cOp EXCEPT ![o] = ConcLeaveFn(o, "throw")]
                  /\ cBrowser' = cBrowser
             ELSE /\ cOp' = [cOp EXCEPT ![o].pc = "goto", ![o].finalUrl = finalUrl]
                  /\ cBrowser' = UsePage(cBrowser, cOp[o].page, o)
    /\ UNCHANGED <<cCache, cLast>>
    /\ UNCHANGED notConc

\* page.goto resolves: a search waits for the results and then lists the
\* cards, a details lookup starts extracting.
ConcGotoResolves(o) ==
    /\ cOp[o].pc = "goto"
    /\ cOp' = [cOp EXCEPT ![o].pc = IF cOp[o].kind = "search" THEN "cards"
                                    ELSE "extract"]
    /\ UNCHANGED <<cBrowser, cCache, cLast>>
    /\ UNCHANGED notConc

\* page.goto rejects.
ConcGotoRejects(o) ==
    /\ cOp[o].pc = "goto"
    /\ cOp' = [cOp EXCEPT ![o] = ConcLeaveFn(o, "throw")]
    /\ UNCHANGED <<cBrowser, cCache, cLast>>
    /\ UNCHANGED notConc

\* waitForSearchResults and page.$$(listingCard) settle: the loop of
\* extractListings starts, or page.$$ raised.
ConcListSettles(o) ==
    /\ cOp[o].pc = "cards"
    /\ \E ok \in BOOLEAN :
         cOp' = [cOp EXCEPT ![o] = IF ok
                                   THEN [cOp[o] EXCEPT !.pc = "card", !.cards = 0,
                                                       !.listings = <<>>]
                                   ELSE ConcLeaveFn(o, "throw")]
    /\ UNCHANGED <<cBrowser, cCache, cLast>>
    /\ UNCHANGED notConc

\* One iteration of the loop of extractListings: the awaited reads of the card
\* settle, then the card is skipped, or cached and appended.
ConcExtractCard(o) ==
    /\ cOp[o].pc = "card"
    /\ cOp[o].cards < MaxConcCards
    /\ \E card \in Cards, now \in Times :
         LET d == cOp[o].domain
             x == ExtractFrom(<<card>>, 1, d, now,
                              [cache |-> cCache[d], listings |-> cOp[o].listings])
             kept == Len(x.listings) > Len(cOp[o].listings)
             listing == x.listings[Len(x.listings)]
         IN  /\ cCache' = [cCache EXCEPT ![d] = x.cache]
             /\ cOp' = [cOp EXCEPT
                          ![o].cards = @ + 1,
                          ![o].listings = x.listings,
                          ![o].extracted = IF kept
                                           THEN @ \cup {[id |-> listing.id,
                                                         url |-> listing.url]}
                                           ELSE @]
             /\ cLast' = IF kept
                         THEN [cLast EXCEPT ![d] =
                                 [k \in DOMAIN @ \cup {listing.id} |->
                                    IF k = listing.id
                                    THEN [op |-> o, url |-> listing.url]
                                    ELSE @[k]]]
                         ELSE cLast
    /\ UNCHANGED cBrowser
    /\ UNCHANGED notConc

\* The loop is through and extractPaginationInfo settles: fn returns the
\* SearchResult, or page.$ of the next-page link raised.
ConcPaginationSettles(o) ==
    /\ cOp[o].pc = "card"
    /\ \E ok \in BOOLEAN :
         cOp' = [cOp EXCEPT ![o] = ConcLeaveFn(o, IF ok THEN "return" ELSE "throw")]
    /\ UNCHANGED <<cBrowser, cCache, cLast>>
    /\ UNCHANGED notConc

\* The extraction of getListingDetails' fn settles.
ConcExtractSettles(o) ==
    /\ cOp[o].pc = "extract"
    /\ \E ok \in BOOLEAN :
         cOp' = [cOp EXCEPT ![o] = ConcLeaveFn(o, IF ok THEN "return" ELSE "throw")]
    /\ UNCHANGED <<cBrowser, cCache, cLast>>
    /\ UNCHANGED notConc

\* The awaited page.close() resolves: withPage completes with what fn did, and
\* retryOperation takes over.
ConcCloseResolves(o) ==
    /\ cOp[o].pc = "closing"
    /\ cBrowser' = ClosePage(cBrowser, cOp[o].page)
    /\ cOp' = [cOp EXCEPT ![o] = ConcAfterAttempt(o, cOp[o].outcome)]
    /\ UNCHANGED <<cCache, cLast>>
    /\ UNCHANGED notConc

\* The backoff timer fires: attempt++ and the next operation() runs up to its
\* awaited browser.newPage().
ConcBackoffElapsed(o) ==
    /\ cOp[o].pc = "backoff"
    /\ cOp' = [cOp EXCEPT ![o].pc = "newPage", ![o].attempt = @ + 1,
                          ![o].cards = 0, ![o].listings = <<>>,
                          ![o].finalUrl = <<>>, ![o].outcome = ""]
    /\ UNCHANGED <<cBrowser, cCache, cLast>>
    /\ UNCHANGED notConc

ConcStep(o) ==
    \/ ConcCall(o)
    \/ ConcNewPageResolves(o)
    \/ ConcNewPageRejects(o)
    \/ ConcFindSettles(o)
    \/ ConcGotoResolves(o)
    \/ ConcGotoRejects(o)
    \/ ConcListSettles(o)
    \/ ConcExtractCard(o)
    \/ ConcPaginationSettles(o)
    \/ ConcExtractSettles(o)
    \/ ConcCloseResolves(o)
    \/ ConcBackoffElapsed(o)

ConcNext == \E o \in Ops : ConcStep(o)

-----------------------------------------------------------------------------
(* SpecExtract: extractListings of one scraper over pages whose cards may  *)
(* link anywhere, with the clock of Date.now() advancing, and              *)
(* extractListingId called again on the links it was given.                *)

MaxClock == 2
MaxIdCalls == 4

\* Date.now().toString() after clock milliseconds.
DateNow(clock) == "170000000000" \o DigitChars[clock + 1]

\* The cards of Cards, and one whose link leads to a page of search results.
LinkCards == Cards \cup {[title |-> "Phone", href |-> SearchPageHref]}

\* No card: the last step was not the loop body.
NoCard == [title |-> "", href |-> <<"none">>]

ExtractInit ==
    /\ xDomain \in OlxDomains
    /\ xClock = 0
    /\ xPc = "idle"
    /\ xListings = <<>>
    /\ xCache = <<>>
    /\ xCalls = <<>>
    /\ xLast = NoCard

\* extractListings(page) is entered and page.$$ resolved.
ExtractStart ==
    /\ xPc \in {"idle", "returned"}
    /\ xPc' = "loop"
    /\ xListings' = <<>>
    /\ xLast' = NoCard
    /\ UNCHANGED <<xDomain, xClock, xCache, xCalls>>
    /\ UNCHANGED notExtract

\* The loop body ran with x for a card with link href.
ExtractedCard(href, x) ==
    /\ xCache' = x.cache
    /\ xListings' = x.listings
    /\ xCalls' = IF Len(x.listings) > Len(xListings)
                 THEN Append(xCalls, [url |-> href,
                                      id |-> x.listings[Len(x.listings)].id])
                 ELSE xCalls

\* One iteration of the loop of extractListings.
ExtractOne ==
    /\ xPc = "loop"
    /\ Len(xCalls) < MaxIdCalls
    /\ \E card \in LinkCards :
         /\ ExtractedCard(card.href,
                          ExtractFrom(<<card>>, 1, xDomain, DateNow(xClock),
                                      [cache |-> xCache, listings |-> xListings]))
         /\ xLast' = card
    /\ UNCHANGED <<xDomain, xClock, xPc>>
    /\ UNCHANGED notExtract

\* return listings
ExtractReturn ==
    /\ xPc = "loop"
    /\ xPc' = "returned"
    /\ xLast' = NoCard
    /\ UNCHANGED <<xDomain, xClock, xListings, xCache, xCalls>>
    /\ UNCHANGED notExtract

\* A millisecond passes.
ExtractTick ==
    /\ xClock < MaxClock
    /\ xClock' = xClock + 1
    /\ xLast' = NoCard
    /\ UNCHANGED <<xDomain, xPc, xListings, xCache, xCalls>>
    /\ UNCHANGED notExtract

\* extractListingId(url) is called once more on a link it was given before.
ExtractIdAgain ==
    /\ Len(xCalls) < MaxIdCalls
    /\ \E i \in 1..Len(xCalls) :
         xCalls' = Append(xCalls,
                          [url |-> xCalls[i].url,
                           id |-> ExtractListingId(xCalls[i].url, DateNow(xClock))])
    /\ xLast' = NoCard
    /\ UNCHANGED <<xDomain, xClock, xPc, xListings, xCache>>
    /\ UNCHANGED notExtract

ExtractNext ==
    \/ ExtractStart
    \/ ExtractOne
    \/ ExtractReturn
    \/ ExtractTick
    \/ ExtractIdAgain

-----------------------------------------------------------------------------
(* SpecDomains: the domain registry, a plain object literal keyed by       *)
(* domain, queried with arbitrary strings.                                 *)

MaxDomainCalls == 2

\* Object.keys(OLX_DOMAIN_CONFIGS): the own keys in insertion order.
ConfigKeys == <<"olx.pt", "olx.pl", "olx.bg", "olx.ro", "olx.ua">>

\* Properties an object literal inherits from Object.prototype.
ObjectPrototypeKeys ==
    {"constructor", "toString", "valueOf", "hasOwnProperty", "__proto__"}

\* The strings the registry is asked about.
DomainCandidates ==
    OlxDomains \cup {"olx.xx", "", "OLX.PT", "toString", "constructor", "__proto__"}

IsOwnKey(key) == \E i \in 1..Len(ConfigKeys) : ConfigKeys[i] = key

NoConfig == [kind |-> "undefined", domain |-> ""]

\* OLX_DOMAIN_CONFIGS[key]: the config of an own key, what Object.prototype
\* has under an inherited one (a function, or the prototype itself), or
\* undefined.
ConfigLookup(key) ==
    IF IsOwnKey(key) THEN [kind |-> "config", domain |-> key]
    ELSE IF key \in ObjectPrototypeKeys THEN [kind |-> "inherited", domain |-> ""]
    ELSE NoConfig

\* key in OLX_DOMAIN_CONFIGS: own and inherited properties alike.
KeyIn(key) == IsOwnKey(key) \/ key \in ObjectPrototypeKeys

getDomainConfig(domain) ==
    LET config == ConfigLookup(domain)
    IN  IF config.kind = "undefined"
        THEN [threw |-> TRUE, message |-> UnsupportedMessage(domain),
              config |-> NoConfig]
        ELSE [threw |-> FALSE, message |-> <<>>, config |-> config]

getSupportedDomains == ConfigKeys

isDomainSupported(domain) == KeyIn(domain)

DomCall(fn, arg, threw, message, config, value, list) ==
    [fn |-> fn, arg |-> arg, threw |-> threw, message |-> message,
     config |-> config, value |-> value, list |-> list]

DomInit == dLog = <<>>

DomGetDomainConfig ==
    /\ Len(dLog) < MaxDomainCalls
    /\ \E s \in DomainCandidates :
         dLog' = Append(dLog, DomCall("getDomainConfig", s,
                                      getDomainConfig(s).threw,
                                      getDomainConfig(s).message,
                                      getDomainConfig(s).config, FALSE, <<>>))
    /\ UNCHANGED notDom

DomGetSupportedDomains ==
    /\ Len(dLog) < MaxDomainCalls
    /\ dLog' = Append(dLog, DomCall("getSupportedDomains", "", FALSE, <<>>,
                                    NoConfig, FALSE, getSupportedDomains))
    /\ UNCHANGED notDom

DomIsDomainSupported ==
    /\ Len(dLog) < MaxDomainCalls
    /\ \E s \in DomainCandidates :
         dLog' = Append(dLog, DomCall("isDomainSupported", s, FALSE, <<>>,
                                      NoConfig, isDomainSupported(s), <<>>))
    /\ UNCHANGED notDom

DomNext ==
    \/ DomGetDomainConfig
    \/ DomGetSupportedDomains
    \/ DomIsDomainSupported

-----------------------------------------------------------------------------
(* SpecRegistry: one ToolRegistry under register, unregister, clear and    *)
(* its queries.  The Map is a sequence of tools in insertion order.        *)

\* The tool objects at hand: three names, each borne by two objects.
ToolNames == {"searchListings", "getListingDetails", "echo"}
ToolObjects == [name : ToolNames, object : {"first", "second"}]
NoTool == [name |-> "", object |-> "undefined"]

\* this.tools.has(name)
has(tools, name) == \E i \in 1..Len(tools) : tools[i].name = name

\* this.tools.get(name)
get(tools, name) ==
    IF has(tools, name)
    THEN tools[CHOOSE i \in 1..Len(tools) : tools[i].name = name]
    ELSE NoTool

AlreadyRegisteredMessage(name) == <<"Tool ", name, " already registered">>

\* A register that sets without looking: Map.set replaces the value of a key
\* that is present, in place.
register_Overwrite(tools, tool) ==
    [threw |-> FALSE, message |-> <<>>,
     tools |-> IF has(tools, tool.name)
               THEN [i \in 1..Len(tools) |->
                       IF tools[i].name = tool.name THEN tool ELSE tools[i]]
               ELSE Append(tools, tool)]

\* register(tool)
register(tools, tool) ==
    IF has(tools, tool.name)
    THEN [threw |-> TRUE, message |-> AlreadyRegisteredMessage(tool.name),
          tools |-> tools]
    ELSE [threw |-> FALSE, message |-> <<>>, tools |-> Append(tools, tool)]

\* Array.from(this.tools.values())
getAllTools(tools) == tools

\* Array.from(this.tools.keys())
getToolNames(tools) == [i \in 1..Len(tools) |-> tools[i].name]

\* this.tools.size > 0
hasTools(tools) == Len(tools) > 0

\* this.tools.delete(name): whether the key was there, and the Map without it.
unregister(tools, name) ==
    [value |-> has(tools, name),
     tools |-> SelectSeq(tools, LAMBDA t : t.name # name)]

\* this.tools.clear()
clear(tools) == <<>>

RegCall(fn, name, tool, before, threw, message, value, found, list) ==
    [fn |-> fn, name |-> name, tool |-> tool, before |-> before,
     threw |-> threw, message |-> message, value |-> value, found |-> found,
     list |-> list]

RegInit == gTools = <<>> /\ gLast = [fn |-> "none"]

RegRegistered(tool, r) ==
    /\ gTools' = r.tools
    /\ gLast' = RegCall("register", tool.name, tool, gTools, r.threw, r.message,
                        FALSE, NoTool, <<>>)

RegRegister ==
    /\ \E tool \in ToolObjects : RegRegistered(tool, register(gTools, tool))
    /\ UNCHANGED notReg

RegUnregistered(name, r) ==
    /\ gTools' = r.tools
    /\ gLast' = RegCall("unregister", name, NoTool, gTools, FALSE, <<>>, r.value,
                        NoTool, <<>>)

RegUnregister ==
    /\ \E name \in ToolNames \cup {"unknown"} :
         RegUnregistered(name, unregister(gTools, name))
    /\ UNCHANGED notReg

RegClear ==
    /\ gTools' = clear(gTools)
    /\ gLast' = RegCall("clear", "", NoTool, gTools, FALSE, <<>>, FALSE, NoTool, <<>>)
    /\ UNCHANGED notReg

RegGet ==
    /\ \E name \in ToolNames \cup {"unknown"} :
         gLast' = RegCall("get", name, NoTool, gTools, FALSE, <<>>,
                          has(gTools, name), get(gTools, name), <<>>)
    /\ UNCHANGED gTools
    /\ UNCHANGED notReg

RegGetAllTools ==
    /\ gLast' = RegCall("getAllTools", "", NoTool, gTools, FALSE, <<>>,
                        hasTools(gTools), NoTool, getAllTools(gTools))
    /\ UNCHANGED gTools
    /\ UNCHANGED notReg

RegGetToolNames ==
    /\ gLast' = RegCall("getToolNames", "", NoTool, gTools, FALSE, <<>>,
                        hasTools(gTools), NoTool, getToolNames(gTools))
    /\ UNCHANGED gTools
    /\ UNCHANGED notReg

RegNext ==
    \/ RegRegister
    \/ RegUnregister
    \/ RegClear
    \/ RegGet
    \/ RegGetAllTools
    \/ RegGetToolNames

-----------------------------------------------------------------------------
(* SpecServer: one OLXMCPServer under initialize(), cleanup() and the      *)
(* CallTool handler, the calls made one after the other.  chromium.launch  *)
(* and browser.close may fail.                                             *)

MaxLaunches == 3

\* new SearchListingsTool(...) / new GetListingDetailsTool(...) of a launch.
ServerTool(name, launch) ==
    [name |-> name, object |-> IF launch = 1 THEN "first" ELSE "second"]

\* this.registry.register(search).register(details)
RegisterTools(tools, launch) ==
    IF register(tools, ServerTool("searchListings", launch)).threw
    THEN register(tools, ServerTool("searchListings", launch))
    ELSE register(register(tools, ServerTool("searchListings", launch)).tools,
                  ServerTool("getListingDetails", launch))

NoResult == [success |-> TRUE, data |-> [data |-> ""]]

ServerCall(fn, prev, name, before, env, rejected, message, executed, result, text) ==
    [op |-> fn, prev |-> prev, name |-> name, before |-> before, env |-> env,
     rejected |-> rejected, message |-> message, executed |-> executed,
     result |-> result, text |-> text]

\* The call before: which it was and whether it completed.
Previous == IF sLast.op = "none" THEN [op |-> "none", rejected |-> FALSE]
            ELSE [op |-> sLast.op, rejected |-> sLast.rejected]

ServerInit ==
    /\ sRegistry = <<>> /\ sBrowser = 0 /\ sFactory = 0 /\ sLaunched = 0
    /\ sOpen = {}
    /\ sLast = [op |-> "none"]

\* initialize() went on after the launch resolved, with r what the two
\* register calls gave.
Initialized(r) ==
    /\ sLaunched' = sLaunched + 1
    /\ sBrowser' = sLaunched + 1
    /\ sOpen' = sOpen \cup {sLaunched + 1}
    /\ sFactory' = sLaunched + 1
    /\ sRegistry' = r.tools
    /\ sLast' = ServerCall("initialize", Previous, "", sRegistry, "resolves",
                           r.threw, r.message, 0, NoResult, <<>>)

\* initialize(): the awaited chromium.launch, the factory, the two tools.
ServerInitialize ==
    /\ sLaunched < MaxLaunches
    /\ \E launch \in {"resolves", "rejects"} :
         IF launch = "rejects"
         THEN /\ sLast' = ServerCall("initialize", Previous, "", sRegistry,
                                     "rejects", TRUE, <<"Failed to launch browser">>,
                                     0, NoResult, <<>>)
              /\ UNCHANGED <<sRegistry, sBrowser, sFactory, sLaunched, sOpen>>
         ELSE Initialized(RegisterTools(sRegistry, sLaunched + 1))
    /\ UNCHANGED notServer

\* cleanup(): the factory is dropped, then the browser, if there is one, is
\* closed with an awaited browser.close() outside any try.
ServerCleanup ==
    /\ sFactory' = 0
    /\ \E close \in {"resolves", "rejects"} :
         IF sBrowser = 0
         THEN /\ close = "resolves"
              /\ sLast' = ServerCall("cleanup", Previous, "", sRegistry, "none",
                                     FALSE, <<>>, 0, NoResult, <<>>)
              /\ UNCHANGED <<sBrowser, sOpen>>
         ELSE IF close = "resolves"
         THEN /\ sBrowser' = 0
              /\ sOpen' = sOpen \ {sBrowser}
              /\ sLast' = ServerCall("cleanup", Previous, "", sRegistry, close,
                                     FALSE, <<>>, 0, NoResult, <<>>)
         ELSE /\ sLast' = ServerCall("cleanup", Previous, "", sRegistry, close,
                                     TRUE, <<"Close failed">>, 0, NoResult, <<>>)
              /\ UNCHANGED <<sBrowser, sOpen>>
    /\ UNCHANGED <<sRegistry, sLaunched>>
    /\ UNCHANGED notServer

\* JSON.stringify(data, null, 2) of an object with the one string field data.
JsonStringify(value) == <<"{\n  \"data\": \"", value.data, "\"\n}">>

\* A handler that hands a failure back as content.
CallToolResponse_AsContent(result) ==
    IF ~result.success
    THEN [rejected |-> FALSE, message |-> <<>>, text |-> result.error.message]
    ELSE [rejected |-> FALSE, message |-> <<>>, text |-> JsonStringify(result.data)]

\* The CallTool handler once tool.execute gave result.
CallToolResponse(result) ==
    IF ~result.success
    THEN [rejected |-> TRUE, message |-> result.error.message, text |-> <<>>]
    ELSE [rejected |-> FALSE, message |-> <<>>, text |-> JsonStringify(result.data)]

\* request.params.arguments: none, or an object.
HandlerArgs(name) ==
    IF name = "getListingDetails"
    THEN {Undef,
          [domain |-> Str("olx.pl"), listingId |-> Str("X"),
           includeImages |-> Undef, includeSellerInfo |-> Undef],
          [domain |-> Str("olx.xx"), listingId |-> Str("X"),
           includeImages |-> Undef, includeSellerInfo |-> Undef]}
    ELSE {Undef,
          [domain |-> Str("olx.pt"), query |-> Str("phone"), category |-> Undef,
           location |-> Undef, minPrice |-> Undef, maxPrice |-> Undef,
           page |-> Undef, limit |-> Undef, sortBy |-> Undef]}

\* args || {}
ArgsOrEmpty(name, args) ==
    IF args # Undef THEN args
    ELSE IF name = "getListingDetails"
    THEN [domain |-> Undef, listingId |-> Undef, includeImages |-> Undef,
          includeSellerInfo |-> Undef]
    ELSE [domain |-> Undef, query |-> Undef, category |-> Undef,
          location |-> Undef, minPrice |-> Undef, maxPrice |-> Undef,
          page |-> Undef, limit |-> Undef, sortBy |-> Undef]

\* tool.execute(args) with no token: the Result of the parse failure, or of
\* what executeImpl did.
ToolResult(e, outcome) == IF e.next = "done" THEN e.result ELSE ExecuteSettle(outcome)

ToolExecuted(name, result, response) ==
    sLast' = ServerCall("call", Previous, name, sRegistry, "none",
                        response.rejected, response.message, 1, result,
                        response.text)

\* The CallTool handler.
ServerCallTool ==
    /\ \E name \in ToolNames \cup {"unknown"} :
         IF get(sRegistry, name).name = ""
         THEN sLast' = ServerCall("call", Previous, name, sRegistry, "none", TRUE,
                                  <<"Tool not found: ", name>>, 0, NoResult, <<>>)
         ELSE \E args \in HandlerArgs(name), outcome \in ImplOutcomes :
                ToolExecuted(
                  name,
                  ToolResult(ExecuteEntry(IF name = "getListingDetails"
                                          THEN "details" ELSE "search",
                                          ArgsOrEmpty(name, args), "clear"),
                             outcome),
                  CallToolResponse(
                    ToolResult(ExecuteEntry(IF name = "getListingDetails"
                                            THEN "details" ELSE "search",
                                            ArgsOrEmpty(name, args), "clear"),
                               outcome)))
    /\ UNCHANGED <<sRegistry, sBrowser, sFactory, sLaunched, sOpen>>
    /\ UNCHANGED notServer

ServerNext ==
    \/ ServerInitialize
    \/ ServerCleanup
    \/ ServerCallTool

-----------------------------------------------------------------------------
(* SpecPagination: the end of performSearch's fn on one page, from the     *)
(* total-count element to the SearchResult.                                *)

IsDigit(c) == \E i \in 1..10 : DigitChars[i] = c

\* The digits from position i on.
RECURSIVE DigitRun(_, _)
DigitRun(cs, i) ==
    IF i > Len(cs) \/ ~IsDigit(cs[i]) THEN <<>>
    ELSE <<cs[i]>> \o DigitRun(cs, i + 1)

\* text.match(/(\d+)/)[1], or <<>> for no match.
MatchDigits(cs) ==
    IF \E i \in 1..Len(cs) : IsDigit(cs[i])
    THEN DigitRun(cs, CHOOSE i \in 1..Len(cs) :
                        IsDigit(cs[i]) /\ \A j \in 1..(i - 1) : ~IsDigit(cs[j]))
    ELSE <<>>

\* parseInt(digits, 10)
RECURSIVE ParseInt(_)
ParseInt(cs) ==
    IF cs = <<>> THEN 0
    ELSE ParseInt(SubSeq(cs, 1, Len(cs) - 1)) * 10
         + (CHOOSE i \in 0..9 : DigitChars[i + 1] = cs[Len(cs)])

\* The callback of the $eval on the text of the element.
TotalCountOfText(cs) ==
    IF MatchDigits(cs) # <<>> THEN ParseInt(MatchDigits(cs)) ELSE 0

\* page.$eval(totalCount, ...).catch(() => 0): the $eval rejects when no
\* element matches.
EvalTotalCount(el) == IF el.present THEN TotalCountOfText(el.text) ELSE 0

\* The total-count element: none, or one with its textContent.
TotalCountElements ==
    {[present |-> FALSE, text |-> <<>>]} \cup
    {[present |-> TRUE, text |-> cs] :
       cs \in {<<>>,
               <<"n", "o", " ", "a", "d", "s">>,
               <<"0">>,
               <<"4", "0">>,
               <<"4", "1", " ", "a", "d", "s">>,
               <<"F", "o", "u", "n", "d", " ", "8", "0", " ", "a", "d", "s">>,
               <<"8", "1">>,
               <<"1", " ", "2", "3", "4", " ", "a", "d", "s">>,
               <<"0", "0", "7">>,
               <<"a", "-", "1", "2", "0", "b", "9">>}}

PagInit ==
    /\ pgDomain \in OlxDomains
    /\ pgElement \in TotalCountElements
    /\ pgPage \in {Undef, Num(1), Num(2), Num(3)}
    /\ pgPc = "totalCount"
    /\ pgTotal = 0
    /\ pgResult = Unset

\* The $eval of the total count settles.
PagTotalCountSettles ==
    /\ pgPc = "totalCount"
    /\ pgTotal' = EvalTotalCount(pgElement)
    /\ pgPc' = "nextPage"
    /\ UNCHANGED <<pgDomain, pgElement, pgPage, pgResult>>
    /\ UNCHANGED notPag

\* fn's return value from what extractPaginationInfo gave.
SearchResultOf(info) ==
    Return([listings |-> <<>>, totalCount |-> info.totalCount,
            currentPage |-> info.currentPage, totalPages |-> info.totalPages,
            hasNextPage |-> info.hasNextPage])

\* page.$ of the next-page link settles; it has no catch and may raise.
PagNextPageSettles ==
    /\ pgPc = "nextPage"
    /\ \E ok \in BOOLEAN, hasNextPage \in BOOLEAN :
         pgResult' = IF ok
                     THEN SearchResultOf(
                            extractPaginationInfo(
                              pgTotal, hasNextPage,
                              IF Truthy(pgPage) THEN pgPage.n ELSE 1))
                     ELSE LookupFailure
    /\ pgPc' = "done"
    /\ UNCHANGED <<pgDomain, pgElement, pgPage, pgTotal>>
    /\ UNCHANGED notPag

PagNext ==
    \/ PagTotalCountSettles
    \/ PagNextPageSettles

-----------------------------------------------------------------------------
(* SpecFind: one findListingUrl call of the scraper of a domain, on a      *)
(* search page with up to MaxLinks card links.                             *)

MaxLinks == 2

\* A link to a listing on another host, and a link new URL() cannot parse.
AbsoluteHref(id) == <<"https://www.olx.com", "/item-", "ID", id, ".html">>
UnparsableHref(id) == <<"http://[", "ID", id, ".html">>

\* The hrefs the card links of the page may carry.
LinkHrefs ==
    {ItemHref("X"), PromotedHref("X"), ItemHref("Y"), AbsoluteHref("X"),
     UnparsableHref("X"), SearchPageHref}

\* href*="ID<listingId>"
HrefContainsId(href, id) ==
    \E i \in 1..(Len(href) - 1) : href[i] = "ID" /\ href[i + 1] = id

\* page.$eval(`[data-cy="l-card"] a[href*="ID${listingId}"]`, getAttribute)
\* .catch(() => null): the href of the first matching link; <<>> is null, for
\* no matching link or a failed lookup.
FindListingLink(links, id, lookupOk) ==
    IF lookupOk /\ \E i \in 1..Len(links) : HrefContainsId(links[i], id)
    THEN links[CHOOSE i \in 1..Len(links) :
                 /\ HrefContainsId(links[i], id)
                 /\ \A j \in 1..(i - 1) : ~HrefContainsId(links[j], id)]
    ELSE <<>>

\* new URL(href, baseUrl) parses.
LinkParses(href) == href[1] # "http://["

\* new URL(href, baseUrl).toString(): an href with an origin keeps it.
ResolveLink(href, d) ==
    IF href[1] = "https://www.olx.com" THEN href ELSE <<BaseUrl(d)>> \o href

Settled(url) == [kind |-> "return", url |-> url]
Raised(message) == [kind |-> "throw", url |-> <<>>, message |-> message]

\* A findListingUrl whose navigation is outside the try.
GotoFailed_Uncaught == Raised(<<"net::ERR_CONNECTION_REFUSED">>)

\* The catch of findListingUrl after a rejected page.goto: return ''.
GotoFailed == Settled(<<>>)

\* The rest of findListingUrl once the lookup gave listingLink.
LinkFound(listingLink, d) ==
    IF listingLink # <<>> /\ LinkParses(listingLink)
    THEN Settled(ResolveLink(listingLink, d))
    ELSE Settled(<<>>)

\* The path findListingUrl searches under, by the class of the scraper.
FindPath(d) ==
    IF ScraperClass(d) = "OLXPLScraper" THEN "/oferty/"
    ELSE IF ScraperClass(d) = "OLXPTScraper" THEN "/ads/"
    ELSE IF d = "olx.pl" THEN "/oferty/" ELSE "/ads/"

FindInit ==
    /\ lDomain \in OlxDomains
    /\ lId \in ListingIds
    /\ lLinks \in SeqsUpTo(LinkHrefs, MaxLinks)
    /\ lPc = "goto"
    /\ lNav = <<BaseUrl(lDomain), FindPath(lDomain), "q-", lId, "/">>
    /\ lOut = Unset

\* The awaited page.goto resolves.
FindGotoResolves ==
    /\ lPc = "goto"
    /\ lPc' = "lookup"
    /\ UNCHANGED <<lDomain, lId, lLinks, lNav, lOut>>
    /\ UNCHANGED notFind

\* The awaited page.goto rejects.
FindGotoRejects ==
    /\ lPc = "goto"
    /\ lPc' = "gotoFailed"
    /\ lOut' = GotoFailed
    /\ UNCHANGED <<lDomain, lId, lLinks, lNav>>
    /\ UNCHANGED notFind

\* The awaited $eval settles.
FindLookupSettles ==
    /\ lPc = "lookup"
    /\ \E lookupOk \in BOOLEAN :
         /\ lPc' = IF lookupOk THEN "done" ELSE "lookupFailed"
         /\ lOut' = LinkFound(FindListingLink(lLinks, lId, lookupOk), lDomain)
    /\ UNCHANGED <<lDomain, lId, lLinks, lNav>>
    /\ UNCHANGED notFind

FindNext ==
    \/ FindGotoResolves
    \/ FindGotoRejects
    \/ FindLookupSettles

-----------------------------------------------------------------------------
(* SpecWrap: wrapError (core/errors.ts) applied to an error, and to what   *)
(* it returned.  An error is its class, code, message in tokens, cause     *)
(* and the operation of its context.                                       *)

MaxWraps == 2

BaseErrorClasses == {"GenericError", "ValidationError", "ScrapingError", "TimeoutError"}

\* readonly code of the class
CodeOf(cls) ==
    CASE cls = "ValidationError" -> "VALIDATION_ERROR"
      [] cls = "ScrapingError" -> "SCRAPING_ERROR"
      [] cls = "TimeoutError" -> "TIMEOUT_ERROR"
      [] OTHER -> "UNKNOWN_ERROR"

StructuredError(cls, message, operation, cause) ==
    [cls |-> cls, code |-> CodeOf(cls), message |-> message,
     operation |-> operation, cause |-> cause]

\* An argument of a constructor: a string, a context object, an Error or a
\* number; nothing is "undefined".
StringArg(chars) == [is |-> "string", chars |-> chars, operation |-> "undefined", cause |-> "undefined"]
NumberArg(text) == [is |-> "number", chars |-> <<text>>, operation |-> "undefined", cause |-> "undefined"]
ContextArg(operation) == [is |-> "object", chars |-> <<"[object Object]">>, operation |-> operation, cause |-> "undefined"]
CauseArg(cause) ==
    IF cause = "undefined"
    THEN [is |-> "undefined", chars |-> <<"undefined">>, operation |-> "undefined", cause |-> "undefined"]
    ELSE [is |-> "error", chars |-> <<"Error: ", cause>>, operation |-> "undefined", cause |-> cause]
NoArg == CauseArg("undefined")

\* new cls(a1, a2, a3), each class with its own parameters:
\*   GenericError(message, context, cause)
\*   ValidationError(message, context, cause)
\*   ScrapingError(message, url, context, cause)
\*   TimeoutError(timeoutMs, operation, context, cause)
\* A context spread from something that is no context has no operation.
Construct(cls, a1, a2, a3) ==
    CASE cls = "GenericError" ->
           StructuredError(cls, a1.chars, a2.operation, a3.cause)
      [] cls = "ValidationError" ->
           StructuredError(cls, <<"Validation failed: ">> \o a1.chars,
                           a2.operation, a3.cause)
      [] cls = "ScrapingError" ->
           StructuredError(cls, <<"Scraping failed: ">> \o a1.chars,
                           a3.operation, "undefined")
      [] cls = "TimeoutError" ->
           StructuredError(cls,
                           IF a2.is # "undefined"
                           THEN <<"Operation \"">> \o a2.chars
                                \o <<"\" timed out after ">> \o a1.chars \o <<"ms">>
                           ELSE <<"Operation timed out after ">> \o a1.chars \o <<"ms">>,
                           IF a2.is \in {"string", "undefined"} THEN a2.chars[1]
                           ELSE "[object Object]",
                           "undefined")

\* wrapError(error, operation): a BaseError is constructed again by its own
\* class from (message, context with the operation, cause); an Error becomes
\* the cause of a GenericError; anything else is converted to a string.
wrapError(error, operation) ==
    IF error.cls \in BaseErrorClasses
    THEN Construct(error.cls, StringArg(error.message), ContextArg(operation),
                   CauseArg(error.cause))
    ELSE IF error.cls = "Error"
    THEN Construct("GenericError", StringArg(error.message),
                   ContextArg(operation), CauseArg("the error"))
    ELSE Construct("GenericError", StringArg(error.message),
                   ContextArg(operation), NoArg)

\* The errors as the code constructs and throws them.
ThrownErrors ==
    {Construct(cls, StringArg(<<m>>), NoArg, CauseArg(c)) :
       cls \in {"GenericError", "ValidationError"},
       m \in {"price must be positive", ""}, c \in {"undefined", "root"}}
    \cup {Construct("ScrapingError", StringArg(<<m>>), StringArg(<<"https://www.olx.pt/ads/">>), NoArg) :
            m \in {"search failed", ""}}
    \cup {Construct("TimeoutError", NumberArg("15000"), a2, NoArg) :
            a2 \in {NoArg, StringArg(<<"search">>)}}
    \cup {[cls |-> c, code |-> "none", message |-> <<m>>, operation |-> "undefined",
           cause |-> "undefined"] :
            c \in {"Error", "string"}, m \in {"net::ERR_CONNECTION_REFUSED", "boom"}}

WrapInit ==
    /\ wError \in ThrownErrors
    /\ wInput = Unset
    /\ wCount = 0

Wrap ==
    /\ wCount < MaxWraps
    /\ \E operation \in {"scrape", "getListingDetails", "search"} :
         wError' = wrapError(wError, operation)
    /\ wInput' = wError
    /\ wCount' = wCount + 1
    /\ UNCHANGED notWrap

WrapNext == Wrap

-----------------------------------------------------------------------------
(* The specifications.  Each leaves the variables of the others at their   *)
(* initial values.                                                         *)

ToolIdle ==
    /\ tSchema = "search" /\ tArgs = Unset /\ tSignal = "none"
    /\ tAtEntry = NotEntered /\ tPc = "off" /\ tParsed = 0 /\ tImplCalls = 0
    /\ tImplArgs = Unset /\ tOutcome = Unset /\ tResult = Unset

RetryIdle ==
    /\ rMax = 0 /\ rAttempt = 0 /\ rPc = "off" /\ rLog = <<>>
    /\ rLastError = Unset /\ rOutcome = Unset

MainIdle ==
    /\ op = [o \in Ops |-> [IdleOp EXCEPT !.pc = "off"]]
    /\ signal = [o \in Ops |-> "none"]
    /\ pages = [o \in Ops |-> <<>>]
    /\ hist = [o \in Ops |-> IdleHist]
    /\ scrapers = {}
    /\ urlCache = [d \in CallDomains |-> <<>>]
    /\ surfaced = [d \in CallDomains |-> {}]
    /\ callsMade = 0

FactoryIdle == fScrapers = {} /\ fCreated = 0 /\ fLog = <<>>

UrlIdle == uDomain = "" /\ uFilters = Unset /\ uPc = "off" /\ uUrl = Unset

ConcIdle ==
    /\ cOp = [o \in Ops |-> [ConcIdleOp EXCEPT !.pc = "off"]]
    /\ cBrowser = <<>>
    /\ cCache = [d \in CallDomains |-> <<>>]
    /\ cLast = [d \in CallDomains |-> <<>>]

ExtractIdle ==
    /\ xDomain = "" /\ xClock = 0 /\ xPc = "off" /\ xListings = <<>>
    /\ xCache = <<>> /\ xCalls = <<>> /\ xLast = [title |-> "", href |-> <<"none">>]

DomIdle == dLog = <<[fn |-> "off"]>>

RegIdle == gTools = <<>> /\ gLast = [fn |-> "off"]

ServerIdle ==
    /\ sRegistry = <<>> /\ sBrowser = 0 /\ sFactory = 0 /\ sLaunched = 0
    /\ sOpen = {} /\ sLast = [op |-> "off"]

PagIdle ==
    /\ pgDomain = "" /\ pgElement = Unset /\ pgPage = Unset /\ pgPc = "off"
    /\ pgTotal = 0 /\ pgResult = Unset

FindIdle ==
    /\ lDomain = "" /\ lId = "" /\ lLinks = <<>> /\ lPc = "off" /\ lNav = <<>>
    /\ lOut = Unset

WrapIdle == wError = Unset /\ wInput = Unset /\ wCount = 0

\* Calls one after the other, all through the first slot.
SequentialOps == {"a"}

Init == MainInit /\ ToolIdle /\ RetryIdle /\ FactoryIdle /\ UrlIdle /\ ConcIdle /\ ExtractIdle /\ DomIdle /\ RegIdle /\ ServerIdle /\ PagIdle /\ FindIdle /\ WrapIdle
Next == \E o \in SequentialOps : Call(o) \/ Step(o)
Spec == Init /\ [][Next]_vars

InitTool == ToolInit /\ RetryIdle /\ MainIdle /\ FactoryIdle /\ UrlIdle /\ ConcIdle /\ ExtractIdle /\ DomIdle /\ RegIdle /\ ServerIdle /\ PagIdle /\ FindIdle /\ WrapIdle
NextTool == ToolNext
SpecTool == InitTool /\ [][NextTool]_vars

InitRetry == RetryInit /\ ToolIdle /\ MainIdle /\ FactoryIdle /\ UrlIdle /\ ConcIdle /\ ExtractIdle /\ DomIdle /\ RegIdle /\ ServerIdle /\ PagIdle /\ FindIdle /\ WrapIdle
NextRetry == RetryNext
SpecRetry == InitRetry /\ [][NextRetry]_vars

InitUrl == UrlInit /\ ToolIdle /\ RetryIdle /\ MainIdle /\ FactoryIdle /\ ConcIdle /\ ExtractIdle /\ DomIdle /\ RegIdle /\ ServerIdle /\ PagIdle /\ FindIdle /\ WrapIdle
NextUrl == UrlNext
SpecUrl == InitUrl /\ [][NextUrl]_vars

InitFactory == FactoryInit /\ ToolIdle /\ RetryIdle /\ MainIdle /\ UrlIdle /\ ConcIdle /\ ExtractIdle /\ DomIdle /\ RegIdle /\ ServerIdle /\ PagIdle /\ FindIdle /\ WrapIdle
NextFactory == FactoryNext
SpecFactory == InitFactory /\ [][NextFactory]_vars

InitConc == ConcInit /\ ToolIdle /\ RetryIdle /\ MainIdle /\ FactoryIdle /\ UrlIdle /\ ExtractIdle /\ DomIdle /\ RegIdle /\ ServerIdle /\ PagIdle /\ FindIdle /\ WrapIdle
NextConc == ConcNext
SpecConc == InitConc /\ [][NextConc]_vars

InitExtract == ExtractInit /\ ToolIdle /\ RetryIdle /\ MainIdle /\ FactoryIdle /\ UrlIdle /\ ConcIdle /\ DomIdle /\ RegIdle /\ ServerIdle /\ PagIdle /\ FindIdle /\ WrapIdle
NextExtract == ExtractNext
SpecExtract == InitExtract /\ [][NextExtract]_vars

InitDomains == DomInit /\ ToolIdle /\ RetryIdle /\ MainIdle /\ FactoryIdle /\ UrlIdle /\ ConcIdle /\ ExtractIdle /\ RegIdle /\ ServerIdle /\ PagIdle /\ FindIdle /\ WrapIdle
NextDomains == DomNext
SpecDomains == InitDomains /\ [][NextDomains]_vars

InitRegistry == RegInit /\ ToolIdle /\ RetryIdle /\ MainIdle /\ FactoryIdle /\ UrlIdle /\ ConcIdle /\ ExtractIdle /\ DomIdle /\ ServerIdle /\ PagIdle /\ FindIdle /\ WrapIdle
NextRegistry == RegNext
SpecRegistry == InitRegistry /\ [][NextRegistry]_vars

InitServer == ServerInit /\ ToolIdle /\ RetryIdle /\ MainIdle /\ FactoryIdle /\ UrlIdle /\ ConcIdle /\ ExtractIdle /\ DomIdle /\ RegIdle /\ PagIdle /\ FindIdle /\ WrapIdle
NextServer == ServerNext
SpecServer == InitServer /\ [][NextServer]_vars

InitPagination == PagInit /\ ToolIdle /\ RetryIdle /\ MainIdle /\ FactoryIdle /\ UrlIdle /\ ConcIdle /\ ExtractIdle /\ DomIdle /\ RegIdle /\ ServerIdle /\ FindIdle /\ WrapIdle
NextPagination == PagNext
SpecPagination == InitPagination /\ [][NextPagination]_vars

InitFind == FindInit /\ ToolIdle /\ RetryIdle /\ MainIdle /\ FactoryIdle /\ UrlIdle /\ ConcIdle /\ ExtractIdle /\ DomIdle /\ RegIdle /\ ServerIdle /\ PagIdle /\ WrapIdle
NextFind == FindNext
SpecFind == InitFind /\ [][NextFind]_vars

InitWrap == WrapInit /\ ToolIdle /\ RetryIdle /\ MainIdle /\ FactoryIdle /\ UrlIdle /\ ConcIdle /\ ExtractIdle /\ DomIdle /\ RegIdle /\ ServerIdle /\ PagIdle /\ FindIdle
NextWrap == WrapNext
SpecWrap == InitWrap /\ [][NextWrap]_vars

-----------------------------------------------------------------------------
(* Properties of BaseTool.execute, checked under SpecTool.                 *)

ArgsValid == SchemaParse(tSchema, tArgs).ok
ToolFailed == tPc = "done" /\ ~tResult.success
Contains(message, token) == \E i \in 1..Len(message) : message[i] = token

\* C1: execute called with an already-signaled token returns the failure
\* 'Operation cancelled' before any validation or I/O: the schema is not
\* evaluated and executeImpl is never invoked, whatever the arguments.
C1_PreAbortedCancelsFirst ==
    (tPc \in {"impl", "done"} /\ tAtEntry = "aborted") =>
        /\ ToolFailed
        /\ tResult.error.message = CancelledMessage
        /\ tParsed = 0
        /\ tImplCalls = 0

C1_Witness ==
    /\ tPc = "done" /\ tAtEntry = "aborted" /\ ~ArgsValid
    /\ tResult.error.message = CancelledMessage

\* C2: execute never raises and returns a Result; success carrying exactly
\* executeImpl's return value iff the token was not signaled at entry, the
\* arguments validated and executeImpl returned normally; a thrown Error is
\* carried as the failure's error, a thrown non-Error value becomes an Error
\* whose message is the stringified value.
C2_ThrownErrorIsCarried ==
    tPc = "done" =>
        /\ tResult.success \in BOOLEAN
        /\ tResult.success <=>
             (tAtEntry # "aborted" /\ ArgsValid /\ tImplCalls = 1
              /\ tOutcome.kind = "return")
        /\ tResult.success => tResult.data = tOutcome.value
        /\ (tImplCalls = 1 /\ tOutcome.kind = "throw") =>
             IF tOutcome.thrown.kind = "Error"
             THEN tResult.error = tOutcome.thrown
             ELSE /\ tResult.error.kind = "Error"
                  /\ tResult.error.message = StringOf(tOutcome.thrown)

\* The rules of the declared schema that the raw arguments violate: the rule
\* of each field, and for a search the two rules across fields.
FieldViolations(schema, args) ==
    UNION {{FieldResult(Shape(schema), args, i).issues[j] :
                j \in 1..Len(FieldResult(Shape(schema), args, i).issues)} :
           i \in 1..Len(Shape(schema))}

CrossViolations(schema, args) ==
    IF schema # "search" THEN {}
    ELSE (IF /\ args["minPrice"].t = "number" /\ args["maxPrice"].t = "number"
             /\ Truthy(args["minPrice"]) /\ Truthy(args["maxPrice"])
             /\ args["maxPrice"].n < args["minPrice"].n
          THEN {Issue("maxPrice", MaxPriceMsg)} ELSE {})
         \cup
         (IF \A k \in {"query", "category", "location"} : ~Truthy(args[k])
          THEN {Issue("query", AtLeastOneMsg)} ELSE {})

Violations(schema, args) ==
    FieldViolations(schema, args) \cup CrossViolations(schema, args)

\* C3: when the arguments violate the declared schema, execute returns a
\* failure whose message starts with 'Validation error' and names every
\* violated field with its rule, all in one message, and executeImpl is not
\* invoked.
C3_EveryViolationNamed ==
    (tPc \in {"impl", "done"} /\ tAtEntry # "aborted"
     /\ Violations(tSchema, tArgs) # {}) =>
        /\ ToolFailed
        /\ tImplCalls = 0
        /\ tResult.error.message[1] = ValidationPrefix
        /\ \A v \in Violations(tSchema, tArgs) :
             Contains(tResult.error.message, FormatIssue(v))

-----------------------------------------------------------------------------
(* Properties of retryOperation, checked under SpecRetry.                  *)

\* The invocations of the operation, in order.
Attempts == SelectSeq(rLog, LAMBDA e : e.type \in {"ok", "fail"})
Delays == SelectSeq(rLog, LAMBDA e : e.type = "delay")

ScheduledDelay(k) ==
    CASE k = 1 -> 1000
      [] k = 2 -> 2000
      [] k = 3 -> 4000
      [] k = 4 -> 8000
      [] OTHER -> 10000

RECURSIVE SumDelays(_, _)
SumDelays(entries, i) ==
    IF i > Len(entries) THEN 0
    ELSE entries[i].delay + SumDelays(entries, i + 1)

\* C6: after a failed attempt k < maxAttempts retryOperation waits exactly
\* min(1000 * 2^(k-1), 10000) ms before attempt k+1; it waits nothing after a
\* successful attempt or after the final failed attempt, so three failures
\* with maxAttempts = 3 wait 1000 + 2000 ms in total.
C6_BackoffSchedule ==
    /\ \A i \in 1..Len(rLog) :
         rLog[i].type = "delay" =>
            /\ i > 1
            /\ rLog[i - 1].type = "fail"
            /\ rLog[i - 1].attempt = rLog[i].attempt
            /\ rLog[i].attempt < rMax
            /\ rLog[i].delay = ScheduledDelay(rLog[i].attempt)
    /\ \A i \in 1..Len(rLog) :
         (rLog[i].type = "fail" /\ rLog[i].attempt < rMax) =>
            /\ i < Len(rLog)
            /\ rLog[i + 1].type = "delay"
    /\ \A i \in 1..Len(rLog) :
         (rLog[i].type = "delay" /\ i < Len(rLog)) =>
            /\ rLog[i + 1].type \in {"ok", "fail"}
            /\ rLog[i + 1].attempt = rLog[i].attempt + 1
    /\ rLog # <<>> => rLog[1].type # "delay"
    /\ (rPc = "done" /\ rMax = 3 /\ rOutcome.kind = "throw") =>
         SumDelays(Delays, 1) = 3000

C6_Witness ==
    /\ rPc = "done" /\ rMax = 6 /\ rOutcome.kind = "throw"
    /\ Len(Delays) = 5
    /\ Delays[4].delay = 8000
    /\ Delays[5].delay = 10000

-----------------------------------------------------------------------------
(* Properties of the tool calls, checked under Spec.                       *)

\* withPage of the attempt that opened the page has completed.
WithPageCompleted(o, i) ==
    \/ i < Len(pages[o])
    \/ op[o].pc \in {"backoff", "done"}
    \/ op[o].pc = "newPage"

\* C4: every page opened by withPage is closed exactly once before withPage
\* completes, on every exit path (fn returns, fn raises, the token was
\* already signaled), and never while fn is still running.
C4_PageClosedExactlyOnce ==
    \A o \in Ops : \A i \in 1..Len(pages[o]) :
        LET page == pages[o][i]
        IN  /\ page.closes <= 1
            /\ page.open <=> page.closes = 0
            /\ page.closes = 1 => page.fnAtClose \in {"none", "settled"}
            /\ page.fn = "running" => page.open
            /\ page.done <=> WithPageCompleted(o, i)
            /\ page.done => page.closes = 1
            /\ page.outcome # "none" => page.closes = 1

C4_Witness ==
    \E o \in Ops :
        /\ op[o].pc = "done"
        /\ Len(pages[o]) = 3
        /\ pages[o][1].outcome = "throw" /\ pages[o][1].fnAtClose = "settled"
        /\ pages[o][2].outcome = "throw" /\ pages[o][2].fnAtClose = "none"
        /\ pages[o][3].outcome = "throw" /\ pages[o][3].fnAtClose = "none"
        /\ \A i \in 1..3 : pages[o][i].closes = 1 /\ pages[o][i].done

\* C7: a pre-signaled token passed to the searchListings or getListingDetails
\* tool yields the failure 'Operation cancelled' with zero navigations: the
\* scraper is not obtained or invoked and no page is opened.
C7_PreSignaledNoNavigation ==
    \A o \in Ops :
        (op[o].pc # "idle" /\ hist[o].atEntry = "aborted") =>
            /\ op[o].pc = "done"
            /\ ~op[o].result.success
            /\ op[o].result.error.message = CancelledMessage
            /\ hist[o].navs = <<>>
            /\ hist[o].finds = <<>>
            /\ pages[o] = <<>>
            /\ ~hist[o].obtained
            /\ hist[o].implCalls = 0

C7_Witness ==
    \E o \in Ops :
        /\ op[o].pc = "done" /\ op[o].tool = "details"
        /\ hist[o].atEntry = "aborted"
        /\ scrapers # {}
        /\ op[o].result.error.message = CancelledMessage

\* C8: once a check-point of scrape() or getListingDetails() observes the
\* token signaled, the operation ends in a failure Result without starting
\* another attempt: no further page is opened, no further navigation is
\* started and no backoff delay is waited after that check-point.
C8_CancellationFailsFast ==
    \A o \in Ops :
        hist[o].seen.observed =>
            /\ Len(pages[o]) = hist[o].seen.pages
            /\ Len(hist[o].navs) = hist[o].seen.navs
            /\ Len(hist[o].delays) = hist[o].seen.delays
            /\ op[o].pc = "done" => ~op[o].result.success

\* The call is a getListingDetails for an id that a successful scrape() of
\* the same scraper surfaced.
DetailsOfSurfaced(o) ==
    /\ op[o].tool = "details"
    /\ hist[o].obtained
    /\ op[o].listingId \in surfaced[op[o].domain]

\* C9: getListingDetails(X) after a successful scrape() on the same scraper
\* that surfaced X uses the cached URL: findListingUrl is never invoked and
\* the only navigation of each attempt is to the cached absolute URL of X.
C9_SurfacedIdUsesCache ==
    \A o \in Ops :
        DetailsOfSurfaced(o) =>
            /\ hist[o].finds = <<>>
            /\ \A i \in 1..Len(hist[o].navs) :
                 LET nav == hist[o].navs[i]
                 IN  /\ nav.kind = "detail"
                     /\ op[o].listingId \in DOMAIN urlCache[op[o].domain]
                     /\ nav.url = urlCache[op[o].domain][op[o].listingId]
                     /\ nav.url[1] = BaseUrl(op[o].domain)
                     /\ \A j \in 1..Len(hist[o].navs) :
                          i < j => nav.attempt < hist[o].navs[j].attempt

C9_Witness ==
    \E o \in Ops :
        /\ DetailsOfSurfaced(o)
        /\ op[o].pc = "done" /\ op[o].result.success
        /\ Len(hist[o].navs) = 2
        /\ hist[o].navs[2].url = ResolveUrl(PromotedHref("X"), op[o].domain)

\* The call is a getListingDetails for an id the URL cache has no entry for.
DetailsOfUncached(o) ==
    /\ op[o].tool = "details"
    /\ hist[o].obtained
    /\ op[o].listingId \notin DOMAIN urlCache[op[o].domain]

EmptyFinds(o) == {i \in 1..Len(hist[o].finds) : hist[o].finds[i].url = <<>>}

\* The page the attempt opened.
PageOfAttempt(o, k) ==
    pages[o][CHOOSE p \in 1..Len(pages[o]) : pages[o][p].attempt = k]

NotFoundFailure(o) ==
    /\ ~op[o].result.success
    /\ op[o].result.error.message = NotFoundMessage(op[o].listingId)

-----------------------------------------------------------------------------
(* Properties of the searchListings arguments, checked under SpecTool.     *)

Provided(v) == v.t # "undefined"

ValidationFailure ==
    /\ ToolFailed
    /\ tResult.error.message[1] = ValidationPrefix
    /\ tImplCalls = 0

BothPrices == tArgs["minPrice"].t = "number" /\ tArgs["maxPrice"].t = "number"

\* C16: searchListings returns a validation failure, without invoking the
\* scraper, whenever both minPrice and maxPrice are provided and maxPrice <
\* minPrice, and whenever none of query, category and location is provided;
\* it accepts maxPrice = minPrice.
C16_PriceRangeAndSearchTerm ==
    (tSchema = "search" /\ tPc \in {"impl", "done"} /\ tAtEntry # "aborted") =>
        /\ (BothPrices /\ tArgs["maxPrice"].n < tArgs["minPrice"].n) =>
              ValidationFailure
        /\ (\A k \in {"query", "category", "location"} : ~Provided(tArgs[k])) =>
              ValidationFailure
        /\ (/\ BothPrices /\ tArgs["maxPrice"].n = tArgs["minPrice"].n
            /\ FieldViolations(tSchema, tArgs) = {}
            /\ \E k \in {"query", "category", "location"} : Truthy(tArgs[k])) =>
              tImplCalls = 1

-----------------------------------------------------------------------------
(* Error propagation of the scrapers, checked under Spec.                  *)

\* C18: scrape() and getListingDetails() never raise across their boundary:
\* an exception inside the retried operation surfaces only after the retries
\* are exhausted, as a failure Result carrying the original error of the last
\* attempt, and the tool returns a failure with that same error, unwrapped.
C18_LastErrorSurfacesUnwrapped ==
    \A o \in Ops :
        hist[o].obtained =>
            /\ op[o].pc # "done" =>
                 /\ op[o].scraperResult = Unset
                 /\ op[o].result = Unset
            /\ op[o].pc = "done" =>
                 /\ op[o].scraperResult.success \in BOOLEAN
                 /\ op[o].result.success = op[o].scraperResult.success
            /\ (op[o].pc = "done" /\ ~op[o].scraperResult.success) =>
                 LET errors == hist[o].errors
                 IN  /\ Len(errors) = MaxRetries
                     /\ \A i \in 1..MaxRetries : errors[i].attempt = i
                     /\ op[o].scraperResult.error = errors[MaxRetries].error
                     /\ op[o].result.error = errors[MaxRetries].error
            /\ (op[o].pc = "done" /\ op[o].scraperResult.success) =>
                 op[o].result.data = op[o].scraperResult.data

C18_Witness ==
    \E o \in Ops :
        /\ op[o].pc = "done" /\ hist[o].obtained
        /\ ~op[o].result.success
        /\ hist[o].errors[1].error.message = <<"net::ERR_CONNECTION_REFUSED">>
        /\ hist[o].errors[2].error.message = NotFoundMessage(op[o].listingId)
        /\ op[o].result.error.message = CancelledMessage
        /\ op[o].result.error.origin = "performGetListingDetails"

-----------------------------------------------------------------------------
(* Properties of OlxScraperFactory, checked under SpecFactory.             *)

\* The calls that returned a scraper.
Returned == {i \in 1..Len(fLog) : fLog[i].call # "clearCache" /\ ~fLog[i].threw}
Clears == {i \in 1..Len(fLog) : fLog[i].call = "clearCache"}
ClearBetween(i, j) == \E c \in Clears : i < c /\ c < j
LastClear == IF Clears = {} THEN 0 ELSE CHOOSE c \in Clears : \A x \in Clears : x <= c

\* C11: on one factory, two calls with the same domain and no clearCache
\* between them return the identical instance; calls with different domains
\* return distinct instances; a call after clearCache returns an instance
\* different from every instance returned before the clear; the cache never
\* holds more than one instance per domain, and hasScraper(d) holds iff d was
\* requested since the last clearCache.
C11_OneInstancePerDomain ==
    /\ \A i, j \in Returned :
         /\ (i < j /\ fLog[i].domain = fLog[j].domain /\ ~ClearBetween(i, j)) =>
               fLog[i].scraper.id = fLog[j].scraper.id
         /\ fLog[i].domain # fLog[j].domain =>
               fLog[i].scraper.id # fLog[j].scraper.id
         /\ (i < j /\ ClearBetween(i, j)) =>
               fLog[i].scraper.id # fLog[j].scraper.id
    /\ \A i \in Returned :
         /\ fLog[i].scraper.id > 0
         /\ fLog[i].scraper.domain = fLog[i].domain
    /\ \A e1, e2 \in fScrapers : e1.key = e2.key => e1 = e2
    /\ \A d \in OlxDomains :
         hasScraper(fScrapers, d) <=>
            \E i \in 1..Len(fLog) :
               i > LastClear /\ fLog[i].call # "clearCache" /\ fLog[i].domain = d

C11_Witness ==
    /\ Len(fLog) = 4
    /\ fLog[1].call = "getScraper" /\ fLog[1].domain = "olx.pt"
    /\ fLog[2].call = "createScraper" /\ fLog[2].domain = "olx.pt"
    /\ fLog[2].scraper.id = fLog[1].scraper.id
    /\ fLog[3].call = "clearCache"
    /\ fLog[4].call = "getScraper" /\ fLog[4].domain = "olx.pt"
    /\ fLog[4].scraper.id # fLog[1].scraper.id
    /\ hasScraper(fScrapers, "olx.pt") /\ ~hasScraper(fScrapers, "olx.pl")

\* C12: getScraper with an identifier that is not a supported domain fails at
\* the call itself with 'Unsupported OLX domain: <id>' and leaves the
\* factory's cache unchanged: no entry is added for the identifier.
C12_UnsupportedDomainFailsAtCall ==
    /\ \A i \in 1..Len(fLog) :
         (fLog[i].call # "clearCache" /\ fLog[i].domain \notin OlxDomains) =>
            /\ fLog[i].threw
            /\ fLog[i].error.kind = "Error"
            /\ fLog[i].error.message = <<"Unsupported OLX domain: ", fLog[i].domain>>
            /\ fLog[i].scraper = NoScraper
            /\ fLog[i].after = fLog[i].before
    /\ \A e \in fScrapers : e.key \in OlxDomains
    /\ \A i \in 1..Len(fLog) : fLog[i].threw => fLog[i].domain \notin OlxDomains

C12_Witness ==
    /\ Len(fLog) = 2
    /\ fLog[1].call = "getScraper" /\ fLog[1].domain = "olx.pl" /\ ~fLog[1].threw
    /\ fLog[2].call = "getScraper" /\ fLog[2].domain = "olx.invalid"
    /\ fLog[2].threw
    /\ fScrapers = fLog[1].after

-----------------------------------------------------------------------------
(* Properties of buildSearchUrl, checked under SpecUrl.                    *)

HasParam(url, key) == \E i \in 1..Len(url.params) : url.params[i].key = key

\* C15: for all valid SearchFilters the built URL contains the category
\* parameter iff category is set, the min-price parameter iff minPrice is
\* set, the max-price parameter iff maxPrice is set, the sort parameter iff
\* sortBy is set and not 'relevance', and the page parameter iff page is set
\* and greater than 1.
C15_ParamsIffFiltersSet ==
    uPc = "done" =>
        /\ HasParam(uUrl, CategoryParam) <=> Provided(uFilters["category"])
        /\ HasParam(uUrl, MinPriceParam) <=> Provided(uFilters["minPrice"])
        /\ HasParam(uUrl, MaxPriceParam) <=> Provided(uFilters["maxPrice"])
        /\ HasParam(uUrl, SortParam) <=>
             (Provided(uFilters["sortBy"]) /\ uFilters["sortBy"].s # "relevance")
        /\ HasParam(uUrl, PageParam) <=>
             (Provided(uFilters["page"]) /\ uFilters["page"].n > 1)

-----------------------------------------------------------------------------
\* Claim C13: what scrape() returns of the cards, and what it caches

\* A scrape() call that completed with success.
SearchSucceeded(o) ==
    /\ op[o].tool = "search"
    /\ hist[o].obtained
    /\ op[o].pc = "done"
    /\ op[o].scraperResult.success

\* The cards with a non-empty title and a non-empty link, in page order.
RECURSIVE TitledAndLinked(_)
TitledAndLinked(cards) ==
    IF cards = <<>> THEN <<>>
    ELSE LET c == Head(cards)
         IN  (IF c.title # "" /\ c.href # <<>> THEN <<c>> ELSE <<>>)
                \o TitledAndLinked(Tail(cards))

\* The cards of TitledAndLinked whose link is a URL.
RECURSIVE TitledAndResolved(_)
TitledAndResolved(cards) ==
    IF cards = <<>> THEN <<>>
    ELSE LET c == Head(cards)
         IN  (IF c.title # "" /\ c.href \notin {<<>>, <<"//">>} THEN <<c>> ELSE <<>>)
                \o TitledAndResolved(Tail(cards))

\* listings holds one listing per card of kept, in the same order.
OneListingPerCard(listings, kept, d) ==
    /\ Len(listings) = Len(kept)
    /\ \A i \in 1..Len(kept) :
         /\ listings[i].title = kept[i].title
         /\ listings[i].url = <<BaseUrl(d)>> \o kept[i].href

ReturnedIds(o) ==
    {op[o].scraperResult.data.listings[i].id :
       i \in 1..Len(op[o].scraperResult.data.listings)}

-----------------------------------------------------------------------------
\* Claim C14: a page without result cards

\* A completed scrape() call whose page loaded and showed no result card: the
\* wait of its first attempt ended with the no-results marker or with the
\* timeout of both waits, the browser failed in nothing, and the token was
\* never signalled.
SearchOfEmptyPage(o) ==
    /\ op[o].tool = "search"
    /\ hist[o].obtained
    /\ op[o].pc = "done"
    /\ signal[o] # "aborted"
    /\ ~hist[o].envFailed
    /\ hist[o].waits # <<>>
    /\ hist[o].waits[1].attempt = 1
    /\ hist[o].waits[1].raced \in {"no-results", "timeout"}

-----------------------------------------------------------------------------
\* Claim C17: the result limit

\* C17 as stated: a successful searchListings call returns at most `limit`
\* listings, limit being the parsed argument (1..50, 20 when not given).
C17_AtMostLimitListings ==
    \A o \in Ops :
        (SearchSucceeded(o) /\ op[o].result.success) =>
            /\ op[o].limit \in 1..50
            /\ Len(op[o].result.data.listings) <= op[o].limit

-----------------------------------------------------------------------------
\* Claim C19: concurrent searches and the URL cache

AllCompleted == \A o \in Ops : cOp[o].pc = "done"

\* The scrape() calls on the scraper of domain d.
SearchesOn(d) == {o \in Ops : cOp[o].kind = "search" /\ cOp[o].domain = d}

\* The ids a completed search surfaced: those of the listings it returned.
SurfacedBy(o) ==
    IF cOp[o].pc = "done" /\ cOp[o].result = "success"
    THEN {cOp[o].listings[i].id : i \in 1..Len(cOp[o].listings)}
    ELSE {}

\* The URLs search o wrote for id, in any of its attempts.
WrittenBy(o, id) == {e.url : e \in {x \in cOp[o].extracted : x.id = id}}

\* The cache of d holds the surfaced ids and no other, each with a URL one of
\* the searches that surfaced it wrote.
OnlySurfacedCached(d) ==
    /\ \A o \in SearchesOn(d) : SurfacedBy(o) \subseteq DOMAIN cCache[d]
    /\ \A id \in DOMAIN cCache[d] :
         \E o \in SearchesOn(d) :
            /\ id \in SurfacedBy(o)
            /\ cCache[d][id] \in WrittenBy(o, id)

-----------------------------------------------------------------------------
\* Claim C20: pages are not shared

\* The attempt of call o is between browser.newPage() and page.close().
InFlight(o) ==
    cOp[o].pc \in {"find", "goto", "cards", "card", "extract", "closing"}

\* C20: in every interleaving of concurrent searches and detail lookups, each
\* in-flight attempt holds an open page that it opened itself and that no
\* other call holds or has navigated, every open page is held by the attempt
\* that opened it, and when all calls have completed no page remains open.
C20_PagesNotShared ==
    /\ \A o \in Ops :
         /\ InFlight(o) <=> cOp[o].page # 0
         /\ cOp[o].page # 0 =>
              /\ cOp[o].page \in DOMAIN cBrowser
              /\ cBrowser[cOp[o].page].openedBy = o
              /\ cBrowser[cOp[o].page].users = {o}
              /\ \A p \in Ops \ {o} : cOp[p].page # cOp[o].page
    /\ \A h \in DOMAIN cBrowser :
         /\ cBrowser[h].users \subseteq {cBrowser[h].openedBy}
         /\ cOp[cBrowser[h].openedBy].page = h
    /\ AllCompleted => DOMAIN cBrowser = {}

\* A search in its second attempt and a details lookup on the same scraper,
\* each on its own page.
C20_Witness ==
    /\ cOp["a"].kind = "search" /\ cOp["a"].attempt = 2 /\ cOp["a"].pc = "card"
    /\ cOp["b"].kind = "details" /\ cOp["b"].pc = "extract"
    /\ cOp["a"].domain = cOp["b"].domain
    /\ DOMAIN cBrowser = {1, 2}
    /\ cOp["a"].page # cOp["b"].page
    /\ cBrowser[cOp["a"].page].users = {"a"}
    /\ cBrowser[cOp["b"].page].users = {"b"}

\* Both calls are through, after retries, and the browser has no page left.
C20_AllClosed ==
    /\ AllCompleted
    /\ \E o \in Ops : cOp[o].attempt = 3 /\ cOp[o].result = "failure"
    /\ DOMAIN cBrowser = {}

-----------------------------------------------------------------------------
\* Claims C21 and C22: what the cache points at, and the ids of a link

\* url is the page of listing id: it carries ID<id>.html.
IsListingPage(url, id) ==
    \E i \in 1..Len(url) :
        /\ i + 2 <= Len(url)
        /\ url[i] = "ID" /\ url[i + 1] = id /\ url[i + 2] = ".html"

\* C21 as stated: in every reachable state each entry of the URL cache maps a
\* listing id to the URL of the page of that listing, never to a search page,
\* whatever links the result cards carry.
C21_CacheHoldsListingPages ==
    \A id \in DOMAIN xCache : IsListingPage(xCache[id], id)

\* C22 as stated: extractListingId returns the same id every time it is
\* applied to the same URL, for every locale scraper.
C22_SameUrlSameId ==
    \A i, j \in 1..Len(xCalls) :
        xCalls[i].url = xCalls[j].url => xCalls[i].id = xCalls[j].id

-----------------------------------------------------------------------------
\* Claim C23: the domain registry

Listed(s) == \E i \in 1..Len(getSupportedDomains) : getSupportedDomains[i] = s

\* C23 as stated: for every candidate string s, isDomainSupported(s) is true
\* iff s is one of the five identifiers getSupportedDomains returns;
\* getDomainConfig(s) returns a config whose domain is s when s is one of the
\* five and fails with 'Unsupported OLX domain: <s>' for every other s.
C23_RegistryConsistent ==
    \A i \in 1..Len(dLog) :
        LET c == dLog[i]
        IN  /\ c.fn = "getSupportedDomains" =>
                 /\ Len(c.list) = 5
                 /\ {c.list[k] : k \in 1..5} = OlxDomains
            /\ c.fn = "isDomainSupported" => (c.value <=> Listed(c.arg))
            /\ c.fn = "getDomainConfig" =>
                 IF Listed(c.arg)
                 THEN ~c.threw /\ c.config.kind = "config" /\ c.config.domain = c.arg
                 ELSE c.threw /\ c.message = <<"Unsupported OLX domain: ", c.arg>>

-----------------------------------------------------------------------------
\* Claim C26: the tool registry

Present(tools, name) == \E i \in 1..Len(tools) : tools[i].name = name

\* tools without the entries named name, the others in their order.
RECURSIVE Without(_, _)
Without(tools, name) ==
    IF tools = <<>> THEN <<>>
    ELSE (IF Head(tools).name = name THEN <<>> ELSE <<Head(tools)>>)
            \o Without(Tail(tools), name)

\* C26: under any sequence of register / unregister / clear the names of the
\* registry stay unique; registering a name that is present raises
\* 'Tool <name> already registered' and leaves the registry unchanged, the
\* original tool still being the one get returns; a new name is appended, so
\* getAllTools and getToolNames list the tools in registration order;
\* unregister returns true iff the name was present and removes just it.
C26_NamesUniqueInOrder ==
    /\ \A i, j \in 1..Len(gTools) : gTools[i].name = gTools[j].name => i = j
    /\ gLast.fn = "register" =>
         IF Present(gLast.before, gLast.name)
         THEN /\ gLast.threw
              /\ gLast.message = <<"Tool ", gLast.name, " already registered">>
              /\ gTools = gLast.before
              /\ \E i \in 1..Len(gTools) :
                    /\ gTools[i].name = gLast.name
                    /\ get(gTools, gLast.name) = gLast.before[i]
         ELSE /\ ~gLast.threw
              /\ gTools = gLast.before \o <<gLast.tool>>
    /\ gLast.fn = "unregister" =>
         /\ gLast.value <=> Present(gLast.before, gLast.name)
         /\ gTools = Without(gLast.before, gLast.name)
    /\ gLast.fn = "clear" => gTools = <<>>
    /\ gLast.fn = "get" =>
         /\ gLast.value <=> Present(gLast.before, gLast.name)
         /\ gLast.value => gLast.found.name = gLast.name
         /\ ~gLast.value => gLast.found = NoTool
    /\ gLast.fn = "getAllTools" => gLast.list = gTools
    /\ gLast.fn = "getToolNames" =>
         /\ Len(gLast.list) = Len(gTools)
         /\ \A i \in 1..Len(gTools) : gLast.list[i] = gTools[i].name

\* With three tools registered, a second object named like the first was
\* refused and the first object is still in its place.
C26_Witness ==
    /\ gLast.fn = "register" /\ gLast.threw
    /\ Len(gTools) = 3
    /\ gLast.tool.object = "second"
    /\ gTools[1].name = gLast.name
    /\ gTools[1].object = "first"

-----------------------------------------------------------------------------
(* The server: initialize, cleanup and the CallTool handler.              *)

\* The server holds both of its tools.
BothRegistered == getToolNames(sRegistry) = <<"searchListings", "getListingDetails">>

AfterCompletedCleanup ==
    /\ sLast.op = "initialize" /\ sLast.env = "resolves"
    /\ sLast.prev.op = "cleanup" /\ ~sLast.prev.rejected

\* C24: an initialize() that follows a completed cleanup(), and whose browser
\* launch resolves, succeeds and leaves both tools registered.
C24_ReinitializeSucceeds ==
    AfterCompletedCleanup => ~sLast.rejected /\ BothRegistered

\* C25: cleanup() resolves, on a server never initialized and also when
\* closing the browser fails.
C25_CleanupResolves == sLast.op = "cleanup" => ~sLast.rejected

\* cleanup() on a server never initialized resolves.
C25_NeverInitializedResolves ==
    (sLast.op = "cleanup" /\ sLaunched = 0) => ~sLast.rejected

\* C27: the CallTool handler rejects with 'Tool not found: <name>', nothing
\* executed, for a name the registry does not hold; rejects with the message
\* of result.error when the tool gave a failure Result; and answers with the
\* JSON text of result.data when it gave a success Result.
C27_HandlerFollowsResult ==
    sLast.op = "call" =>
      IF ~Present(sLast.before, sLast.name)
      THEN /\ sLast.rejected
           /\ sLast.message = <<"Tool not found: ", sLast.name>>
           /\ sLast.executed = 0
      ELSE /\ sLast.executed = 1
           /\ IF ~sLast.result.success
              THEN sLast.rejected /\ sLast.message = sLast.result.error.message
              ELSE /\ ~sLast.rejected
                   /\ sLast.text = <<"{\n  \"data\": \"", sLast.result.data.data, "\"\n}">>

C27_Witness ==
    /\ sLast.op = "call" /\ Present(sLast.before, sLast.name)
    /\ ~sLast.result.success /\ sLast.rejected
    /\ sLast.message = sLast.result.error.message

-----------------------------------------------------------------------------
(* The query slug of searchPath.                                           *)

\* The query slug of a built path: its last segment without the 'q-'.
SlugOf(path) ==
    LET a == CHOOSE i \in 1..(Len(path) - 1) :
                 /\ path[i] = "/"
                 /\ \A j \in (i + 1)..(Len(path) - 1) : path[j] # "/"
    IN  SubSeq(path, a + 3, Len(path) - 1)

BuiltWithQuery == uPc = "done" /\ Truthy(uFilters["query"])

\* C28: for every domain and query, the query slug of the path is the same
\* whether the path is built with a location or without one.
C28_SameSlugInBothBranches ==
    BuiltWithQuery =>
      \A location \in UrlLocations :
        SlugOf(searchPath(uDomain, location, uFilters["query"])) = SlugOf(uUrl.path)

C28_Witness ==
    /\ BuiltWithQuery /\ uDomain = "olx.pl" /\ Truthy(uFilters["location"])
    /\ uFilters["query"].chars = <<"s", "a", "m", "o", "c", "h", "U+00F3", "d">>
    /\ SlugOf(uUrl.path) = <<"s", "a", "m", "o", "c", "h", "o", "d">>
    /\ SlugOf(searchPath(uDomain, Undef, uFilters["query"])) = SlugOf(uUrl.path)

\* The slug of the query with every letter of the domain first folded to its
\* base letter.
FoldedSlug(d, query) ==
    TrimDashes(RunsToDash(RunsToDash(
        RemoveNonSlug(FoldFor(d, toLowerCase(query))), " ", 1), "-", 1))

\* C29: on olx.pl and olx.ro the slug holds the base letter of every letter
\* with a diacritic of the query, with a location and without one.
C29_DiacriticsFolded ==
    (BuiltWithQuery /\ uDomain \in {"olx.pl", "olx.ro"}) =>
      SlugOf(uUrl.path) = FoldedSlug(uDomain, uFilters["query"].chars)

\* On olx.pl the slug holds the base letters.
C29_PolishFolded ==
    (BuiltWithQuery /\ uDomain = "olx.pl") =>
      SlugOf(uUrl.path) = FoldedSlug(uDomain, uFilters["query"].chars)

-----------------------------------------------------------------------------
(* The pagination of a SearchResult.                                       *)

PageSucceeded == pgPc = "done" /\ pgResult.kind = "return"

\* The value of the first i digits of a digit string.
RECURSIVE DecimalValue(_, _)
DecimalValue(cs, i) ==
    IF i = 0 THEN 0
    ELSE 10 * DecimalValue(cs, i - 1)
         + (CHOOSE k \in 0..9 : DigitChars[k + 1] = cs[i])

\* n is the first integer of the text: the digits between a and b, no digit
\* before a, none right after b.
IsFirstInteger(cs, n) ==
    \E a \in 1..Len(cs) : \E b \in a..Len(cs) :
       /\ \A i \in 1..(a - 1) : ~IsDigit(cs[i])
       /\ \A i \in a..b : IsDigit(cs[i])
       /\ b < Len(cs) => ~IsDigit(cs[b + 1])
       /\ n = DecimalValue(SubSeq(cs, a, b), b - a + 1)

HasInteger(el) == el.present /\ \E i \in 1..Len(el.text) : IsDigit(el.text[i])

\* C30: in a successful SearchResult totalCount is the first integer of the
\* total-count element, 0 with no element or no integer; totalPages is the
\* least number of pages of 40 holding totalCount, and at least 1, on every
\* domain; currentPage is the requested page, 1 when none was given.
C30_PaginationFromTotalCount ==
    PageSucceeded =>
      /\ IF HasInteger(pgElement)
         THEN IsFirstInteger(pgElement.text, pgResult.value.totalCount)
         ELSE pgResult.value.totalCount = 0
      /\ pgResult.value.totalPages >= 1
      /\ pgResult.value.totalPages * 40 >= pgResult.value.totalCount
      /\ pgResult.value.totalPages > 1 =>
           (pgResult.value.totalPages - 1) * 40 < pgResult.value.totalCount
      /\ pgResult.value.currentPage = (IF pgPage = Undef THEN 1 ELSE pgPage.n)

C30_Witness ==
    /\ PageSucceeded /\ pgDomain = "olx.bg" /\ pgPage = Num(2)
    /\ pgElement.text = <<"F", "o", "u", "n", "d", " ", "8", "0", " ", "a", "d", "s">>
    /\ pgResult.value.totalCount = 80 /\ pgResult.value.totalPages = 2
    /\ pgResult.value.currentPage = 2

\* No element, and a count of 0, give one page.
C30_WitnessNoElement ==
    /\ PageSucceeded /\ ~pgElement.present
    /\ pgResult.value.totalCount = 0 /\ pgResult.value.totalPages = 1
    /\ pgResult.value.currentPage = 1

-----------------------------------------------------------------------------
(* findListingUrl.                                                         *)

FindSettled == lPc \in {"gotoFailed", "lookupFailed", "done"}

\* C31: findListingUrl never raises; after a failed navigation or lookup it
\* returns ''; otherwise what it returns is '' or a URL with an origin made
\* of a card link of the page whose href holds ID<listingId>: the link
\* itself, or the link after the base URL of the domain.
C31_FindNeverRaises ==
    FindSettled =>
      /\ lOut.kind = "return"
      /\ lPc \in {"gotoFailed", "lookupFailed"} => lOut.url = <<>>
      /\ lOut.url # <<>> =>
           /\ lOut.url[1] \in {"https://www." \o lDomain, "https://www.olx.com"}
           /\ \E i \in 1..Len(lLinks) :
                /\ \E k \in 1..(Len(lLinks[i]) - 1) :
                     lLinks[i][k] = "ID" /\ lLinks[i][k + 1] = lId
                /\ \/ lOut.url = lLinks[i]
                   \/ lOut.url = <<"https://www." \o lDomain>> \o lLinks[i]

C31_Witness ==
    /\ lPc = "gotoFailed" /\ lOut.kind = "return" /\ lOut.url = <<>>
    /\ lDomain = "olx.bg" /\ lLinks # <<>>

\* A resolved link is returned.
C31_WitnessFound ==
    /\ lPc = "done" /\ lDomain = "olx.pl"
    /\ lNav = <<"https://www.olx.pl", "/oferty/", "q-", "X", "/">>
    /\ lOut.url = <<"https://www.olx.pl", "/d/anuncio/item-", "ID", "X", ".html">>

-----------------------------------------------------------------------------
(* Cards whose link holds no id.                                           *)

\* The loop body just ran on a card with a title and a link that is a URL
\* but holds no ID<id>.html.
UnparsedIdCard ==
    /\ xLast # NoCard /\ xLast.title # "" /\ xLast.href # <<>>
    /\ xLast.href # InvalidHref
    /\ ~\E i \in 1..Len(xLast.href) :
          i + 2 <= Len(xLast.href) /\ xLast.href[i] = "ID" /\ xLast.href[i + 2] = ".html"

\* C32: a card with a title and a link whose link holds no id is not dropped:
\* its listing is the last of the listings, under the time of the clock as
\* its id, and the cache maps that id to its URL.
C32_UnparsedIdKeepsCard ==
    UnparsedIdCard =>
      /\ xListings # <<>>
      /\ xListings[Len(xListings)].id = "170000000000" \o DigitChars[xClock + 1]
      /\ xListings[Len(xListings)].title = xLast.title
      /\ xListings[Len(xListings)].url = <<"https://www." \o xDomain>> \o xLast.href
      /\ xListings[Len(xListings)].id \in DOMAIN xCache
      /\ xCache[xListings[Len(xListings)].id] = xListings[Len(xListings)].url

C32_Witness ==
    /\ UnparsedIdCard /\ xClock = 1 /\ Len(xListings) = 2
    /\ xListings[2].id = "1700000000001"
    /\ xCache["1700000000001"] = <<"https://www." \o xDomain, "/ads/q-phone/">>

-----------------------------------------------------------------------------
(* Who writes the URL cache.                                               *)

\* Every attempt of the call that ran fn began with findListingUrl.
FindsOnEveryAttempt(o) ==
    \A p \in 1..Len(pages[o]) :
        pages[o][p].fn # "none" =>
           \E i \in 1..Len(hist[o].navs) :
              /\ hist[o].navs[i].kind = "find"
              /\ hist[o].navs[i].attempt = pages[o][p].attempt

\* The step is one iteration of the loop of extractListings of a search.
ExtractionStep ==
    \E o \in Ops :
        /\ op[o].tool = "search" /\ op[o].pc = "card" /\ op'[o].pc = "card"
        /\ Len(op'[o].cards) = Len(op[o].cards) + 1

-----------------------------------------------------------------------------
(* wrapError.                                                              *)

WrappedStructured == wCount > 0 /\ wInput.cls \in BaseErrorClasses

\* C34: wrapError of a structured error returns an error of the same class,
\* code and cause with exactly the message of its input, once and twice.
C34_WrapKeepsMessage ==
    WrappedStructured =>
      /\ wError.cls = wInput.cls
      /\ wError.code = wInput.code
      /\ wError.cause = wInput.cause
      /\ wError.message = wInput.message

\* wrapError of a structured error keeps its class and code and sets the
\* operation of a GenericError or ValidationError.
C34_WrapKeepsClass ==
    WrappedStructured =>
      /\ wError.cls = wInput.cls
      /\ wError.code = wInput.code
      /\ wError.cls \in {"GenericError", "ValidationError"} =>
           wError.operation \in {"scrape", "getListingDetails", "search"}

-----------------------------------------------------------------------------
(* The retries of a lookup that finds nothing.                             *)

\* A getListingDetails that failed, each of whose attempts raised the
\* not-found error.
EndedNotFound(o) ==
    /\ op[o].tool = "details" /\ op[o].pc = "done" /\ hist[o].obtained
    /\ ~op[o].result.success
    /\ \A i \in 1..Len(hist[o].errors) :
         hist[o].errors[i].error.message =
           <<"Listing with ID ", op[o].listingId,
             " not found. Try searching first to cache the URL.">>

\* C35: a getListingDetails whose id resolves to no URL fails after three
\* attempts and not before: each opened a page and invoked findListingUrl,
\* and the delays between them were 1000 ms and 2000 ms.
C35_NotFoundRetriedThrice ==
    \A o \in Ops :
        EndedNotFound(o) =>
            /\ op[o].result.error.message = NotFoundMessage(op[o].listingId)
            /\ Len(hist[o].errors) = 3
            /\ Len(pages[o]) = 3
            /\ \A k \in 1..3 :
                 /\ pages[o][k].attempt = k /\ pages[o][k].closes = 1
                 /\ hist[o].finds[k] = [attempt |-> k, url |-> <<>>]
            /\ Len(hist[o].finds) = 3
            /\ hist[o].delays = <<1000, 2000>>

C35_Witness ==
    \E o \in Ops :
        /\ EndedNotFound(o) /\ op[o].listingId = "Y" /\ op[o].domain = "olx.pl"
        /\ Len(pages[o]) = 3 /\ hist[o].delays = <<1000, 2000>>
        /\ ~isRetryableError(op[o].result.error)

-----------------------------------------------------------------------------
(* The pages of one call.                                                  *)

OpenPages(o) == {i \in 1..Len(pages[o]) : pages[o][i].open}

\* page.close() of the page has resolved.
Closed(page) == ~page.open /\ page.closes = 1 /\ page.done

-----------------------------------------------------------------------------
(* The cache after a search.                                               *)

\* C37 as stated: when a scrape() returned success, no other call running,
\* the URL cache maps the id of every returned listing to the url of that
\* listing, ids repeated within the page included.
C37_CacheMapsEveryListing ==
    \A o \in Ops :
        SearchSucceeded(o) =>
            \A i \in 1..Len(op[o].scraperResult.data.listings) :
               LET listing == op[o].scraperResult.data.listings[i]
               IN  /\ listing.id \in DOMAIN urlCache[op[o].domain]
                   /\ urlCache[op[o].domain][listing.id] = listing.url

\* After a successful scrape() the cache maps the id of every returned
\* listing to the url of the last returned listing with that id.
C37_CacheMapsLastOfEachId ==
    \A o \in Ops :
        SearchSucceeded(o) =>
            LET listings == op[o].scraperResult.data.listings
            IN  \A i \in 1..Len(listings) :
                   /\ listings[i].id \in DOMAIN urlCache[op[o].domain]
                   /\ (\A j \in (i + 1)..Len(listings) : listings[j].id # listings[i].id)
                        => urlCache[op[o].domain][listings[i].id] = listings[i].url

SearchFailed(o) ==
    /\ op[o].tool = "search" /\ hist[o].obtained
    /\ op[o].pc = "done" /\ ~op[o].scraperResult.success

\* C38 as stated: a scrape() that returned a failure Result left the URL
\* cache as it was at the call: no failed attempt added an entry.
C38_FailedSearchLeavesCache ==
    \A o \in Ops :
        SearchFailed(o) =>
            /\ DOMAIN urlCache[op[o].domain] = hist[o].cacheAtCall
            /\ hist[o].extracted = {}

\* A scrape() that failed before any of its attempts reached the loop of
\* extractListings left the cache as it was.
C38_NoExtractionLeavesCache ==
    \A o \in Ops :
        (SearchFailed(o) /\ hist[o].extracted = {}) =>
            DOMAIN urlCache[op[o].domain] = hist[o].cacheAtCall

-----------------------------------------------------------------------------
(* The consistency of the pagination.                                      *)

\* C39 as stated: in every successful SearchResult hasNextPage is true only
\* if currentPage < totalPages, and currentPage <= totalPages.
C39_PaginationConsistent ==
    PageSucceeded =>
      /\ pgResult.value.hasNextPage =>
           pgResult.value.currentPage < pgResult.value.totalPages
      /\ pgResult.value.currentPage <= pgResult.value.totalPages

-----------------------------------------------------------------------------
(* The browsers of the server.                                             *)

\* C40 as stated: after a cleanup() that resolved every browser the server
\* launched has been closed, also when initialize() ran twice with no
\* cleanup() between or failed after launching.
C40_CleanupClosesEveryBrowser ==
    (sLast.op = "cleanup" /\ ~sLast.rejected) => sOpen = {}

\* After a cleanup() that resolved the server holds no browser and no
\* factory, and the browser it held last is closed.
C40_CleanupClosesHeldBrowser ==
    (sLast.op = "cleanup" /\ ~sLast.rejected) =>
       /\ sBrowser = 0 /\ sFactory = 0
       /\ sLaunched \notin sOpen

=============================================================================
